---- MODULE Spec2Model ----
(***************************************************************************)
(* Model of the voxel storage engine of cpp-experimental2:                 *)
(*   - the lazy set-algebra views            (include/set_views.h)         *)
(*   - the dedup bucket container            (include/bucket_map.h)        *)
(*   - the position codec and ordering       (include/positions.h)         *)
(*   - the chunked position map              (include/chunk_map.h)         *)
(*   - the convex decomposition of voxel maps (include/layered_map_algo.h) *)
(*     with inset, extrude and expand_convex applied on their own          *)
(*   - the layered_map                       (include/layered_map.h)       *)
(* Each component has its own specification over the shared variables;     *)
(* the variables of the other components stay at their initial value.      *)
(***************************************************************************)
EXTENDS Integers, Sequences, FiniteSets, TLC

VARIABLES
    \* ---- set-algebra views: a consumer loop over one set_view at a time
    lhs,          \* first input range handed to the views (ascending by key)
    rhs,          \* second input range handed to the views (ascending by key)
    r1_,          \* set_view::r1_ of the view being consumed
    r2_,          \* set_view::r2_ of the view being consumed
    op_,          \* template parameter Op of the view being consumed
    it1_,         \* set_iter::it1_ (position in r1_, Len(r1_)+1 is end1_)
    it2_,         \* set_iter::it2_ (position in r2_, Len(r2_)+1 is end2_)
    use_first_,   \* set_iter::use_first_
    out,          \* what the consumer loop has written through its output iterator
    vpc,          \* position of the consumer: index of the view being run / "iter"
    results,      \* finished outputs, one per consumed view
    \* ---- bucket_map<size_t, T, uint64_t>
    buckets_,     \* bucket_map::buckets_ (buckets_[b + 1] is bucket b: slot -> pool index)
    values_,      \* bucket_map::values_  (values_[vi + 1] is pool slot vi)
    size_,        \* bucket_map::size_
    lastAssigned, \* history: key -> the value most recently assigned and not erased since
    bret,         \* what the last call returned (erase: 0 or 1)
    \* ---- position codec: a caller splitting and recombining one position
    gpos,         \* the GlobalPosition g
    cpos,         \* ChunkPosition{g}
    lpos,         \* LocalPosition{g}
    recombined,   \* combine(cpos, lpos)
    ppc,          \* position of the caller: "start", "split", "combined"
    \* ---- position ordering: a caller comparing three positions
    ma,           \* first operand of operator< / operator==
    mb,           \* second operand
    mc,           \* third operand
    mres,         \* the comparison results the caller obtained
    mpc,          \* position of the caller: "start", "compared"
    \* ---- chunk_map<T, InnerMap>
    InnerMap,     \* template argument InnerMap: "std::map", "bucket_map", "bucket_map_wrapper"
    chunks_,      \* chunk_map::chunks_ (entries [first, second] in key order)
    written,      \* history: exact position -> value an exact finite map would hold
    usedLarge,    \* history: a modifying call since the last clear got a coordinate of 1024 or more
    cret,         \* the last call: its arguments, what it returned, what it changed
    \* ---- bucket_map: whole-map operations and iteration
    dst,          \* the members of the map under test (record buckets_, values_, size_)
    held,         \* history: key -> value an exact finite map would hold
    rcall,        \* the last call: its arguments, what it returned, what it changed
    \* ---- core_expanding_convex_decomposition called on a layered_map
    shape,        \* the positions the caller writes into the input map, in order
    overflowOk,   \* the build: whether the signed overflow in offset yields a neighbour
    voxels,       \* the input layered_map (its chunks_)
    remaining,    \* local remaining of the decomposition
    layers,       \* local layers of the decomposition
    merged,       \* the caller's union of the returned layers
    kpc,          \* position: "build", "loop", "returned", "merged"
    \* ---- voxel morphology: a caller applies inset, extrude and expand_convex
    inner,        \* the map inset returned
    grown,        \* the map extrude returned
    coreIn,       \* the core handed to expand_convex
    hullOut,      \* the hull expand_convex returned
    tpc           \* position: "build", "inset", "grown", "extruded", "expanded"

viewVars == <<lhs, rhs, r1_, r2_, op_, it1_, it2_, use_first_, out, vpc, results>>

bucketVars == <<buckets_, values_, size_, lastAssigned, bret>>

posVars == <<gpos, cpos, lpos, recombined, ppc>>

mortonVars == <<ma, mb, mc, mres, mpc>>

chunkVars == <<InnerMap, chunks_, written, usedLarge, cret>>

rangeVars == <<dst, held, rcall>>

cecdVars == <<shape, overflowOk, voxels, remaining, layers, merged, kpc>>

morphVars == <<inner, grown, coreIn, hullOut, tpc>>

vars == <<viewVars, bucketVars, posVars, mortonVars, chunkVars, rangeVars, cecdVars, morphVars>>

(***************************************************************************)
(* Bounds of the model.                                                    *)
(***************************************************************************)
MaxKey == 2          \* view inputs draw their keys from 0..MaxKey
MaxSampleChunk == 1  \* sampled coordinates have chunk part 0..MaxSampleChunk (or its complement)
MaxPool == 3         \* calls that would grow values_ beyond MaxPool + 1 slots are not taken

(***************************************************************************)
(* The components are checked one at a time; the variables of the others   *)
(* rest at these values.                                                   *)
(***************************************************************************)
ViewsIdle ==
    /\ lhs = <<>> /\ rhs = <<>> /\ r1_ = <<>> /\ r2_ = <<>> /\ op_ = "none"
    /\ it1_ = 1 /\ it2_ = 1 /\ use_first_ = TRUE /\ out = <<>>
    /\ vpc = "idle" /\ results = <<>>

BucketIdle ==
    /\ buckets_ = <<>> /\ values_ = <<0>> /\ size_ = 0
    /\ lastAssigned = [k \in {} |-> 0] /\ bret = 0

ZeroPos == [x |-> {}, y |-> {}, z |-> {}]

PosIdle ==
    /\ gpos = ZeroPos /\ cpos = ZeroPos /\ lpos = ZeroPos
    /\ recombined = ZeroPos /\ ppc = "start"

NoResults == [lt_ab |-> FALSE, lt_ba |-> FALSE, eq_ab |-> FALSE,
              lt_bc |-> FALSE, lt_ac |-> FALSE, lt_aa |-> FALSE]

MortonIdle ==
    /\ ma = ZeroPos /\ mb = ZeroPos /\ mc = ZeroPos
    /\ mres = NoResults /\ mpc = "start"

NoIt == [outer |-> 0, inner |-> 0]

NoCall ==
    [op |-> "none", key |-> ZeroPos, val |-> 0, thrown |-> FALSE, value |-> 0,
     ok |-> FALSE, ret |-> 0, it |-> NoIt, seq |-> <<>>, same |-> TRUE,
     sizeBefore |-> 0, wasPresent |-> FALSE, oldValue |-> 0]

ChunkIdle ==
    /\ InnerMap = "std::map" /\ chunks_ = <<>> /\ written = <<>>
    /\ usedLarge = FALSE /\ cret = NoCall

NoMap == [buckets_ |-> <<>>, values_ |-> <<0>>, size_ |-> 0]

NoRangeCall ==
    [op |-> "none", key |-> 0, val |-> 0, ret |-> 0, seq |-> <<>>,
     sizeBefore |-> 0, contained |-> FALSE, same |-> TRUE, heldBefore |-> <<>>,
     src |-> <<>>, other |-> NoMap]

RangeIdle == dst = NoMap /\ held = <<>> /\ rcall = NoRangeCall

CecdIdle ==
    /\ shape = <<>> /\ overflowOk = FALSE /\ voxels = <<>> /\ remaining = <<>>
    /\ layers = <<>> /\ merged = <<>> /\ kpc = "build"

MorphIdle ==
    inner = <<>> /\ grown = <<>> /\ coreIn = <<>> /\ hullOut = <<>> /\ tpc = "build"

ViewsFrame == UNCHANGED <<bucketVars, posVars, mortonVars, chunkVars, rangeVars, cecdVars, morphVars>>
BucketFrame == UNCHANGED <<viewVars, posVars, mortonVars, chunkVars, rangeVars, cecdVars, morphVars>>
PosFrame == UNCHANGED <<viewVars, bucketVars, mortonVars, chunkVars, rangeVars, cecdVars, morphVars>>
MortonFrame == UNCHANGED <<viewVars, bucketVars, posVars, chunkVars, rangeVars, cecdVars, morphVars>>
ChunkFrame == UNCHANGED <<viewVars, bucketVars, posVars, mortonVars, rangeVars, cecdVars, morphVars>>
RangeFrame == UNCHANGED <<viewVars, bucketVars, posVars, mortonVars, chunkVars, cecdVars, morphVars>>
CecdFrame == UNCHANGED <<viewVars, bucketVars, posVars, mortonVars, chunkVars, rangeVars, morphVars>>
MorphFrame == UNCHANGED <<viewVars, bucketVars, posVars, mortonVars, chunkVars, rangeVars, cecdVars>>

(***************************************************************************)
(* Inputs of the views: ascending key/value sequences.                     *)
(***************************************************************************)
ViewKeys == 0..MaxKey
ViewVals == {"p", "q"}

Min(S) == CHOOSE x \in S : \A y \in S : x <= y

RECURSIVE AscSeq(_)
\* the ascending sequence of the entries of the finite map f (key -> value)
AscSeq(f) ==
    IF DOMAIN f = {} THEN <<>>
    ELSE LET k == Min(DOMAIN f)
             rest == [x \in (DOMAIN f) \ {k} |-> f[x]]
         IN  <<[first |-> k, second |-> f[k]]>> \o AscSeq(rest)

AscInputs == { AscSeq(f) : f \in UNION { [S -> ViewVals] : S \in SUBSET ViewKeys } }

KeysOf(r) == { r[i].first : i \in 1..Len(r) }

(***************************************************************************)
(* Iterators of an input range r: positions 1..Len(r), the sentinel        *)
(* Len(r)+1.  Incrementing or dereferencing at or past the sentinel is     *)
(* undefined for a forward iterator; the outcomes are a choice: the        *)
(* iterator may land on any position, or past the sentinel (Len(r)+2),     *)
(* where it compares unequal to the sentinel and reads arbitrary keys.     *)
(***************************************************************************)
End(r) == Len(r) + 1
Wild(r) == Len(r) + 2
Valid(r, it) == it \in 1..Len(r)

Incr(r, it) == IF Valid(r, it) THEN {it + 1} ELSE 1..Wild(r)

\* the increments a loop takes until the iterator leaves the past-the-end position
IncrLoop(r, it) == IF Valid(r, it) THEN {it + 1} ELSE 1..End(r)

AnyElem == [first : 0..(MaxKey + 1), second : ViewVals]

Deref(r, it) == IF Valid(r, it) THEN {r[it]} ELSE AnyElem

\* comparator handed to the views (orders entries by key)
Comp(a, b) == a.first < b.first

IterState(i1, i2, uf) == [it1 |-> i1, it2 |-> i2, use_first |-> uf]

(***************************************************************************)
(* detail::set_iter.  Every operator returns the SET of iterator states    *)
(* the call can end in: a singleton unless the call steps an iterator      *)
(* past its sentinel.                                                      *)
(***************************************************************************)

\* set_iter::operator==(default_sentinel_t)
AtEnd(op, a, b, i1, i2) ==
    IF op \in {"overlap", "subtract"}
    THEN i1 = End(a)
    ELSE i1 = End(a) /\ i2 = End(b)

\* set_iter::advance, Op == overlap
AdvanceOverlap(a, b, i1, i2, uf) ==
    { IterState(j1, j2, uf) : j1 \in Incr(a, i1), j2 \in Incr(b, i2) }

\* mutant: subtract advancing both iterators, as overlap does
AdvanceSubtract_Both(a, b, i1, i2, uf) ==
    { IterState(j1, j2, uf) : j1 \in Incr(a, i1), j2 \in Incr(b, i2) }

\* set_iter::advance, Op == subtract
AdvanceSubtract(a, b, i1, i2, uf) ==
    { IterState(j1, i2, uf) : j1 \in Incr(a, i1) }

\* mutant: merge advancing only the first input on equal keys
AdvanceMerge_EqualFirstOnly(a, b, i1, i2, uf) ==
    IF i1 = End(a) THEN { IterState(i1, j2, uf) : j2 \in Incr(b, i2) }
    ELSE IF i2 = End(b) THEN { IterState(j1, i2, uf) : j1 \in Incr(a, i1) }
    ELSE UNION { UNION {
           IF Comp(e2, e1) THEN { IterState(i1, j2, uf) : j2 \in Incr(b, i2) }
           ELSE { IterState(j1, i2, uf) : j1 \in Incr(a, i1) }
         : e2 \in Deref(b, i2) } : e1 \in Deref(a, i1) }

\* set_iter::advance, Op == merge
AdvanceMerge(a, b, i1, i2, uf) ==
    IF i1 = End(a) THEN { IterState(i1, j2, uf) : j2 \in Incr(b, i2) }
    ELSE IF i2 = End(b) THEN { IterState(j1, i2, uf) : j1 \in Incr(a, i1) }
    ELSE UNION { UNION {
           IF Comp(e1, e2) THEN { IterState(j1, i2, uf) : j1 \in Incr(a, i1) }
           ELSE IF Comp(e2, e1) THEN { IterState(i1, j2, uf) : j2 \in Incr(b, i2) }
           ELSE { IterState(j1, j2, uf) : j1 \in Incr(a, i1), j2 \in Incr(b, i2) }
         : e2 \in Deref(b, i2) } : e1 \in Deref(a, i1) }

\* mutant: exclusive always advancing the first input
AdvanceExclusive_FirstOnly(a, b, i1, i2, uf) ==
    { IterState(j1, i2, uf) : j1 \in Incr(a, i1) }

\* set_iter::advance, Op == exclusive
AdvanceExclusive(a, b, i1, i2, uf) ==
    IF uf THEN { IterState(j1, i2, uf) : j1 \in Incr(a, i1) }
    ELSE { IterState(i1, j2, uf) : j2 \in Incr(b, i2) }

Advance(op, a, b, i1, i2, uf) ==
    CASE op = "overlap"   -> AdvanceOverlap(a, b, i1, i2, uf)
      [] op = "subtract"  -> AdvanceSubtract(a, b, i1, i2, uf)
      [] op = "merge"     -> AdvanceMerge(a, b, i1, i2, uf)
      [] op = "exclusive" -> AdvanceExclusive(a, b, i1, i2, uf)

RECURSIVE SatisfyOverlap(_, _, _, _)
\* set_iter::satisfy, Op == overlap
SatisfyOverlap(a, b, i1, i2) ==
    IF i1 # End(a) /\ i2 # End(b)
    THEN UNION { UNION {
           IF Comp(e1, e2)
           THEN UNION { SatisfyOverlap(a, b, j1, i2) : j1 \in IncrLoop(a, i1) }
           ELSE IF Comp(e2, e1)
           THEN UNION { SatisfyOverlap(a, b, i1, j2) : j2 \in IncrLoop(b, i2) }
           ELSE { IterState(i1, i2, TRUE) }
         : e2 \in Deref(b, i2) } : e1 \in Deref(a, i1) }
    ELSE { IterState(i1, i2, TRUE) }

RECURSIVE SatisfySubtract(_, _, _, _)
\* set_iter::satisfy, Op == subtract
SatisfySubtract(a, b, i1, i2) ==
    IF i1 # End(a) /\ i2 # End(b)
    THEN UNION { UNION {
           IF Comp(e1, e2)
           THEN { IterState(i1, i2, TRUE) }
           ELSE IF Comp(e2, e1)
           THEN UNION { SatisfySubtract(a, b, i1, j2) : j2 \in IncrLoop(b, i2) }
           ELSE UNION { SatisfySubtract(a, b, j1, j2) :
                          j1 \in IncrLoop(a, i1), j2 \in IncrLoop(b, i2) }
         : e2 \in Deref(b, i2) } : e1 \in Deref(a, i1) }
    ELSE { IterState(i1, i2, TRUE) }

\* set_iter::satisfy, Op == merge
SatisfyMerge(a, b, i1, i2) ==
    IF i1 = End(a) THEN { IterState(i1, i2, FALSE) }
    ELSE IF i2 = End(b) THEN { IterState(i1, i2, TRUE) }
    ELSE UNION { UNION {
           IF Comp(e1, e2) THEN { IterState(i1, i2, TRUE) }
           ELSE IF Comp(e2, e1) THEN { IterState(i1, i2, FALSE) }
           ELSE { IterState(i1, i2, TRUE) }
         : e2 \in Deref(b, i2) } : e1 \in Deref(a, i1) }

RECURSIVE SatisfyExclusive(_, _, _, _)
\* set_iter::satisfy, Op == exclusive
SatisfyExclusive(a, b, i1, i2) ==
    IF i1 = End(a) THEN { IterState(i1, i2, FALSE) }
    ELSE IF i2 = End(b) THEN { IterState(i1, i2, TRUE) }
    ELSE UNION { UNION {
           IF Comp(e1, e2) THEN { IterState(i1, i2, TRUE) }
           ELSE IF Comp(e2, e1) THEN { IterState(i1, i2, FALSE) }
           ELSE UNION { SatisfyExclusive(a, b, j1, j2) :
                          j1 \in IncrLoop(a, i1), j2 \in IncrLoop(b, i2) }
         : e2 \in Deref(b, i2) } : e1 \in Deref(a, i1) }

Satisfy(op, a, b, i1, i2) ==
    CASE op = "overlap"   -> SatisfyOverlap(a, b, i1, i2)
      [] op = "subtract"  -> SatisfySubtract(a, b, i1, i2)
      [] op = "merge"     -> SatisfyMerge(a, b, i1, i2)
      [] op = "exclusive" -> SatisfyExclusive(a, b, i1, i2)

\* set_iter::operator++ : advance(); satisfy();
PreIncrement(op, a, b, i1, i2, uf) ==
    UNION { Satisfy(op, a, b, s.it1, s.it2) : s \in Advance(op, a, b, i1, i2, uf) }

\* set_iter::operator*
Dereference(a, b, i1, i2, uf) == IF uf THEN Deref(a, i1) ELSE Deref(b, i2)

(***************************************************************************)
(* The consumer: set_intersection / set_difference / set_union /           *)
(* set_symmetric_difference run `for (auto&& e : view) *out++ = e;` over   *)
(* the four views of (lhs, rhs), and once more over overlap(rhs, lhs).     *)
(***************************************************************************)
Runs == << [op |-> "overlap",   swap |-> FALSE],
           [op |-> "subtract",  swap |-> FALSE],
           [op |-> "merge",     swap |-> FALSE],
           [op |-> "exclusive", swap |-> FALSE],
           [op |-> "overlap",   swap |-> TRUE] >>

NumRuns == Len(Runs)

InitViews ==
    /\ lhs \in AscInputs
    /\ rhs \in AscInputs
    /\ r1_ = <<>>
    /\ r2_ = <<>>
    /\ op_ = "none"
    /\ it1_ = 1
    /\ it2_ = 1
    /\ use_first_ = TRUE
    /\ out = <<>>
    /\ vpc = "idle"
    /\ results = <<>>
    /\ BucketIdle
    /\ PosIdle
    /\ MortonIdle
    /\ ChunkIdle
    /\ RangeIdle
    /\ CecdIdle
    /\ MorphIdle

\* set_view::begin(): construct the iterator, which runs satisfy()
ViewBegin ==
    /\ vpc = "idle"
    /\ Len(results) < NumRuns
    /\ LET run == Runs[Len(results) + 1]
           a == IF run.swap THEN rhs ELSE lhs
           b == IF run.swap THEN lhs ELSE rhs
       IN  /\ r1_' = a
           /\ r2_' = b
           /\ op_' = run.op
           /\ \E s \in Satisfy(run.op, a, b, 1, 1) :
                /\ it1_' = s.it1
                /\ it2_' = s.it2
                /\ use_first_' = s.use_first
    /\ out' = <<>>
    /\ vpc' = "iter"
    /\ UNCHANGED <<lhs, rhs, results>>
    /\ ViewsFrame

\* one pass of the loop body: *out++ = *it; ++it;
ViewEmit ==
    /\ vpc = "iter"
    /\ ~AtEnd(op_, r1_, r2_, it1_, it2_)
    /\ \E e \in Dereference(r1_, r2_, it1_, it2_, use_first_) :
         out' = Append(out, e)
    /\ \E s \in PreIncrement(op_, r1_, r2_, it1_, it2_, use_first_) :
         /\ it1_' = s.it1
         /\ it2_' = s.it2
         /\ use_first_' = s.use_first
    /\ UNCHANGED <<lhs, rhs, r1_, r2_, op_, vpc, results>>
    /\ ViewsFrame

\* the loop ends: it == end()
ViewFinish ==
    /\ vpc = "iter"
    /\ AtEnd(op_, r1_, r2_, it1_, it2_)
    /\ results' = Append(results, out)
    /\ vpc' = "idle"
    /\ UNCHANGED <<lhs, rhs, r1_, r2_, op_, it1_, it2_, use_first_, out>>
    /\ ViewsFrame

NextViews == ViewBegin \/ ViewEmit \/ ViewFinish

SpecViews == InitViews /\ [][NextViews]_vars

\* finished outputs by name
Ran(n) == Len(results) >= n
overlapOut   == results[1]
subtractOut  == results[2]
mergeOut     == results[3]
exclusiveOut == results[4]
overlapSwappedOut == results[5]

(***************************************************************************)
(* Reference results the views are compared with.                          *)
(***************************************************************************)
ValAt(r, k) == r[CHOOSE i \in 1..Len(r) : r[i].first = k].second

\* the entries of r whose key is in K, in r's order
EntriesIn(r, K) == AscSeq([k \in KeysOf(r) \cap K |-> ValAt(r, k)])

\* every key of a or b once, ascending, a's value where both hold the key
UnionOf(a, b) ==
    AscSeq([k \in KeysOf(a) \cup KeysOf(b) |->
              IF k \in KeysOf(a) THEN ValAt(a, k) ELSE ValAt(b, k)])

\* the keys held by exactly one of a and b, ascending, with the holder's value
SymDiffOf(a, b) ==
    AscSeq([k \in (KeysOf(a) \ KeysOf(b)) \cup (KeysOf(b) \ KeysOf(a)) |->
              IF k \in KeysOf(a) THEN ValAt(a, k) ELSE ValAt(b, k)])

LastKey(r) == r[Len(r)].first

\* C1: the overlap view emits exactly the entries of A whose key also occurs
\* in B, ascending, with A's value, for every pair of inputs (also when B is
\* exhausted before A, or empty).
C1_OverlapExact ==
    Ran(1) => overlapOut = EntriesIn(lhs, KeysOf(rhs))

\* C2: the key sets emitted by subtract(A,B) and overlap(A,B) are disjoint
\* and their union is exactly A's key set.
C2_SubtractOverlapPartition ==
    Ran(2) => /\ KeysOf(subtractOut) \cap KeysOf(overlapOut) = {}
              /\ KeysOf(subtractOut) \cup KeysOf(overlapOut) = KeysOf(lhs)

\* C3: |overlap(A,B)| + |exclusive(A,B)| = |merge(A,B)|.
C3_OverlapExclusiveCount ==
    Ran(4) => Len(overlapOut) + Len(exclusiveOut) = Len(mergeOut)

\* C4: overlap(A,B) and overlap(B,A) emit the same set of keys.
C4_OverlapCommutes ==
    Ran(5) => KeysOf(overlapOut) = KeysOf(overlapSwappedOut)

\* C5: the subtract view emits exactly the entries of A whose key does not
\* occur in B, ascending, with A's values: while it runs, its output is that
\* selection of the part of A before it1_, it2_ stays within B, and the view
\* ends exactly when A is exhausted.
C5_SubtractExact ==
    /\ (vpc = "iter" /\ op_ = "subtract") =>
          /\ it1_ \in 1..End(r1_)
          /\ it2_ \in 1..End(r2_)
          /\ out = EntriesIn(SubSeq(r1_, 1, it1_ - 1), KeysOf(r1_) \ KeysOf(r2_))
          /\ AtEnd(op_, r1_, r2_, it1_, it2_) <=> (it1_ = End(r1_))
    /\ Ran(2) => subtractOut = EntriesIn(lhs, KeysOf(lhs) \ KeysOf(rhs))

\* C5 witness: subtract has finished on inputs where B ran out before A, a
\* key of A was removed and entries after B's last key were emitted.
C5_Witness ==
    /\ Ran(2)
    /\ Len(lhs) >= 2 /\ Len(rhs) >= 1
    /\ KeysOf(lhs) \cap KeysOf(rhs) # {}
    /\ LastKey(lhs) > LastKey(rhs)
    /\ Len(subtractOut) >= 1
    /\ LastKey(subtractOut) = LastKey(lhs)

\* C6: the merge view emits every key of A or B exactly once, strictly
\* ascending, with A's value for a key both hold; merge(A,A) emits A; the
\* view ends only when both inputs are exhausted.
C6_MergeExact ==
    /\ Ran(3) =>
          /\ mergeOut = UnionOf(lhs, rhs)
          /\ \A i \in 1..(Len(mergeOut) - 1) : mergeOut[i].first < mergeOut[i + 1].first
          /\ (lhs = rhs => mergeOut = lhs)
    /\ (vpc = "iter" /\ op_ = "merge") =>
          (AtEnd(op_, r1_, r2_, it1_, it2_) <=> (it1_ = End(r1_) /\ it2_ = End(r2_)))
    /\ (vpc = "idle" /\ Len(results) = 3) => (it1_ = End(r1_) /\ it2_ = End(r2_))

\* C6 witness: merge has finished on inputs that share a key with different
\* values and each hold a key the other lacks.
C6_Witness ==
    /\ Ran(3)
    /\ \E k \in KeysOf(lhs) \cap KeysOf(rhs) : ValAt(lhs, k) # ValAt(rhs, k)
    /\ KeysOf(lhs) \ KeysOf(rhs) # {}
    /\ KeysOf(rhs) \ KeysOf(lhs) # {}
    /\ Len(mergeOut) = Cardinality(KeysOf(lhs) \cup KeysOf(rhs))

\* C7: the exclusive view emits exactly the entries whose key occurs in
\* exactly one of A and B, ascending, each with the value of the input that
\* holds it; the view ends only when both inputs are exhausted.
C7_ExclusiveExact ==
    /\ Ran(4) => exclusiveOut = SymDiffOf(lhs, rhs)
    /\ (vpc = "iter" /\ op_ = "exclusive") =>
          (AtEnd(op_, r1_, r2_, it1_, it2_) <=> (it1_ = End(r1_) /\ it2_ = End(r2_)))
    /\ (vpc = "idle" /\ Len(results) = 4) => (it1_ = End(r1_) /\ it2_ = End(r2_))

\* C7 witness: exclusive has finished on inputs with a shared key (skipped)
\* and a key held only by A and one held only by B (both emitted).
C7_Witness ==
    /\ Ran(4)
    /\ KeysOf(lhs) \cap KeysOf(rhs) # {}
    /\ KeysOf(lhs) \ KeysOf(rhs) # {}
    /\ KeysOf(rhs) \ KeysOf(lhs) # {}
    /\ Len(exclusiveOut) >= 2

(***************************************************************************)
(* bucket_map<std::size_t, T, std::uint64_t>.  A map value is the record   *)
(* of its three members; the operators below take and return such records. *)
(***************************************************************************)
bits_ == 64

DefaultT == 0                       \* T{}
Values == {DefaultT, 1, 2}          \* the values callers store
BucketIds == {0, 1}                 \* callers use keys of these buckets
SlotIds == {0, 1}                   \* ... at these slots: keys 0, 1, 64, 65
BucketKeys == { b * bits_ + i : b \in BucketIds, i \in SlotIds }

Slots == 0..(bits_ - 1)
EmptyArray == [i \in Slots |-> 0]   \* a value-initialised array_packed<64, int>

Map(bk, vals, sz) == [buckets_ |-> bk, values_ |-> vals, size_ |-> sz]

\* bucket_map::bucket_map(): slot 0 of the pool holds T{}
EmptyMap == Map(<<>>, <<DefaultT>>, 0)

\* flat_vector<array_packed>::resize
Resize(bk, n) ==
    IF n <= Len(bk) THEN SubSeq(bk, 1, n)
    ELSE bk \o [i \in 1..(n - Len(bk)) |-> EmptyArray]

\* bucket_map::value_index_at
ValueIndexAt(m, key) ==
    LET idx == key \div bits_
        bit == key % bits_
    IN  IF idx >= Len(m.buckets_) THEN 0 ELSE m.buckets_[idx + 1][bit]

\* bucket_map::contains
Contains(m, key) == ValueIndexAt(m, key) # 0

\* bucket_map::at: throws std::out_of_range when the slot is 0
AtBucket(m, key) ==
    LET idx == ValueIndexAt(m, key)
    IN  IF idx = 0 THEN [thrown |-> TRUE, value |-> DefaultT]
        ELSE [thrown |-> FALSE, value |-> m.values_[idx + 1]]

\* mutant: the scan takes the first occupied slot without comparing values
ScanBucket_AnyValue(arr, vals, ref) ==
    LET hits == { i \in Slots : arr[i] # 0 }
    IN  IF hits = {} THEN 0 ELSE arr[Min(hits)]

\* mutant: the scan never finds an existing pool entry
ScanBucket_NoDedup(arr, vals, ref) == 0

\* insert_or_assign_impl: the scan of the bucket for a pool entry equal to the value
ScanBucket(arr, vals, ref) ==
    LET hits == { i \in Slots : arr[i] # 0 /\ vals[arr[i] + 1] = ref }
    IN  IF hits = {} THEN 0 ELSE arr[Min(hits)]

\* bucket_map::insert_or_assign_impl
InsertOrAssignImpl(m, key, val) ==
    LET idx == key \div bits_
        bit == key % bits_
        bk  == IF idx >= Len(m.buckets_) THEN Resize(m.buckets_, idx + 1) ELSE m.buckets_
        arr == bk[idx + 1]
        found == ScanBucket(arr, m.values_, val)
        vals == IF found = 0 THEN Append(m.values_, val) ELSE m.values_
        val_idx == IF found = 0 THEN Len(vals) - 1 ELSE found
        sz == IF arr[bit] = 0 THEN m.size_ + 1 ELSE m.size_
    IN  Map([bk EXCEPT ![idx + 1][bit] = val_idx], vals, sz)

\* bucket_map::insert_or_assign
InsertOrAssign(m, key, val) == InsertOrAssignImpl(m, key, val)

\* bucket_map::operator[] (non-const): inserts T{} when the key is absent
IndexRef(m, key) == IF ~Contains(m, key) THEN InsertOrAssign(m, key, DefaultT) ELSE m

\* bucket_map::reference::operator=
RefAssign(m, key, val) == InsertOrAssign(m, key, val)

\* mutant: erase clears the slot and leaves size_ as it was
EraseBucket_NoDecrement(m, key) ==
    LET idx == key \div bits_
        bit == key % bits_
    IN  IF idx >= Len(m.buckets_) THEN [map |-> m, ret |-> 0]
        ELSE IF m.buckets_[idx + 1][bit] = 0 THEN [map |-> m, ret |-> 0]
        ELSE [map |-> Map([m.buckets_ EXCEPT ![idx + 1][bit] = 0], m.values_, m.size_),
              ret |-> 1]

\* bucket_map::erase: the map afterwards and the count returned
EraseBucket(m, key) ==
    LET idx == key \div bits_
        bit == key % bits_
    IN  IF idx >= Len(m.buckets_) THEN [map |-> m, ret |-> 0]
        ELSE IF m.buckets_[idx + 1][bit] = 0 THEN [map |-> m, ret |-> 0]
        ELSE [map |-> Map([m.buckets_ EXCEPT ![idx + 1][bit] = 0], m.values_, m.size_ - 1),
              ret |-> 1]

RECURSIVE AscList(_)
\* the elements of a finite set of integers, ascending (std::map iteration order)
AscList(S) == IF S = {} THEN <<>> ELSE <<Min(S)>> \o AscList(S \ {Min(S)})

\* nodes_view::const_iterator::load, one bucket: the (pool index, mask) pairs
\* of bucket b in ascending pool index; a mask is the set of its bits
LoadMasks(m, b) ==
    LET arr == m.buckets_[b + 1]
        used == { arr[bit] : bit \in Slots } \ {0}
        order == AscList(used)
    IN  [i \in 1..Len(order) |->
            [vi |-> order[i], mask |-> { bit \in Slots : arr[bit] = order[i] }]]

RECURSIVE NodesFrom(_, _)
\* nodes_view iteration from const_iterator(map, b) up to end(): load() skips
\* buckets without masks, operator* builds a node per mask, operator++ moves
\* to the next mask and, past the last, to the next bucket
NodesFrom(m, b) ==
    IF b >= Len(m.buckets_) THEN <<>>
    ELSE LET masks == LoadMasks(m, b)
         IN  [i \in 1..Len(masks) |->
                 [bucket_index_ |-> b,
                  mask_ |-> masks[i].mask,
                  value_ptr_ |-> masks[i].vi,
                  value |-> m.values_[masks[i].vi + 1]]]
             \o NodesFrom(m, b + 1)

\* bucket_map::nodes(), iterated from begin() to end()
Nodes(m) == NodesFrom(m, 0)

\* node::occupied
Occupied(n) == { n.bucket_index_ * bits_ + bit : bit \in n.mask_ }

(***************************************************************************)
(* One bucket_map driven by an arbitrary caller.                           *)
(***************************************************************************)
ThisMap == Map(buckets_, values_, size_)

SetMap(m) ==
    /\ buckets_' = m.buckets_
    /\ values_' = m.values_
    /\ size_' = m.size_

PoolFits(m) == Len(m.values_) <= MaxPool + 1

Assigned(key, val) ==
    [k \in (DOMAIN lastAssigned) \cup {key} |-> IF k = key THEN val ELSE lastAssigned[k]]

Erased(key) == [k \in (DOMAIN lastAssigned) \ {key} |-> lastAssigned[k]]

InitBucket ==
    /\ ViewsIdle
    /\ PosIdle
    /\ MortonIdle
    /\ ChunkIdle
    /\ RangeIdle
    /\ CecdIdle
    /\ MorphIdle
    /\ buckets_ = EmptyMap.buckets_
    /\ values_ = EmptyMap.values_
    /\ size_ = EmptyMap.size_
    /\ lastAssigned = [k \in {} |-> 0]
    /\ bret = 0

\* map.insert_or_assign(key, val)
BmInsertOrAssign ==
    \E key \in BucketKeys, val \in Values :
        LET m == InsertOrAssign(ThisMap, key, val)
        IN  /\ PoolFits(m)
            /\ SetMap(m)
            /\ lastAssigned' = Assigned(key, val)
            /\ bret' = 0
            /\ BucketFrame

\* map[key] = val
BmIndexAssign ==
    \E key \in BucketKeys, val \in Values :
        LET m == RefAssign(IndexRef(ThisMap, key), key, val)
        IN  /\ PoolFits(m)
            /\ SetMap(m)
            /\ lastAssigned' = Assigned(key, val)
            /\ bret' = 0
            /\ BucketFrame

\* map[key] evaluated on the non-const map without assigning through it
BmIndex ==
    \E key \in BucketKeys :
        LET m == IndexRef(ThisMap, key)
        IN  /\ PoolFits(m)
            /\ SetMap(m)
            /\ lastAssigned' = IF key \in DOMAIN lastAssigned THEN lastAssigned
                               ELSE Assigned(key, DefaultT)
            /\ bret' = 0
            /\ BucketFrame

\* map.erase(key)
BmErase ==
    \E key \in BucketKeys :
        LET r == EraseBucket(ThisMap, key)
        IN  /\ SetMap(r.map)
            /\ lastAssigned' = Erased(key)
            /\ bret' = r.ret
            /\ BucketFrame

NextBucket == BmInsertOrAssign \/ BmIndexAssign \/ BmIndex \/ BmErase

SpecBucket == InitBucket /\ [][NextBucket]_vars

\* C8: for every present key k, at(k) returns the value most recently
\* assigned to k (by insert_or_assign or an operator[] write) and not erased
\* since, whatever was assigned to or erased at other keys in between; a key
\* is present exactly when such a value exists.
C8_AtReturnsLastAssigned ==
    /\ \A k \in BucketKeys : Contains(ThisMap, k) <=> k \in DOMAIN lastAssigned
    /\ \A k \in DOMAIN lastAssigned :
          /\ ~AtBucket(ThisMap, k).thrown
          /\ AtBucket(ThisMap, k).value = lastAssigned[k]

\* C8 witness: keys 0 and 1 of bucket 0 hold different values, key 64 of
\* bucket 1 holds the same value as key 0 in a pool entry of its own, and the
\* last call was an erase that removed a key.
C8_Witness ==
    /\ {0, 1, 64} \subseteq DOMAIN lastAssigned
    /\ lastAssigned[0] = 1 /\ lastAssigned[1] = 2 /\ lastAssigned[64] = 1
    /\ 65 \notin DOMAIN lastAssigned
    /\ Len(values_) = 4
    /\ bret = 1

HeldKeys(b, v) ==
    { k \in BucketKeys : /\ k \div bits_ = b
                         /\ Contains(ThisMap, k)
                         /\ AtBucket(ThisMap, k).value = v }

\* C9: nodes() yields, for each bucket, exactly one node per distinct value
\* held by a key of that bucket, whose mask is exactly the set of keys of the
\* bucket holding that value; equal values in one bucket share one pool slot,
\* keys of different buckets never share a pool slot or a node.
C9_NodesPerValue ==
    LET ns == Nodes(ThisMap)
    IN  /\ \A i \in 1..Len(ns) : ns[i].bucket_index_ < Len(buckets_)
        /\ \A b \in 0..(Len(buckets_) - 1) : \A v \in Values :
              LET hits == { i \in 1..Len(ns) : ns[i].bucket_index_ = b /\ ns[i].value = v }
              IN  IF HeldKeys(b, v) = {} THEN hits = {}
                  ELSE /\ Cardinality(hits) = 1
                       /\ \A i \in hits : Occupied(ns[i]) = HeldKeys(b, v)
        /\ \A k1, k2 \in BucketKeys :
              (Contains(ThisMap, k1) /\ Contains(ThisMap, k2)) =>
                 IF k1 \div bits_ = k2 \div bits_
                 THEN (AtBucket(ThisMap, k1).value = AtBucket(ThisMap, k2).value)
                        <=> (ValueIndexAt(ThisMap, k1) = ValueIndexAt(ThisMap, k2))
                 ELSE ValueIndexAt(ThisMap, k1) # ValueIndexAt(ThisMap, k2)

\* C9 witness: keys 0 and 1 hold equal values and share one node, key 65
\* holds the same value in bucket 1 and has a node of its own.
C9_Witness ==
    /\ Contains(ThisMap, 0) /\ Contains(ThisMap, 1) /\ Contains(ThisMap, 65)
    /\ ~Contains(ThisMap, 64)
    /\ AtBucket(ThisMap, 0).value = 1
    /\ AtBucket(ThisMap, 1).value = 1
    /\ AtBucket(ThisMap, 65).value = 1
    /\ Len(Nodes(ThisMap)) = 2
    /\ Nodes(ThisMap)[1].mask_ = {0, 1}
    /\ Nodes(ThisMap)[2].bucket_index_ = 1

(***************************************************************************)
(* Position codec.  A std::uint32_t is the set of its one bits (bit 0 the  *)
(* least significant), so that shifts, masks and additions keep the width. *)
(***************************************************************************)
Width == 32
ChunkShift == 5
LocalMask == 31

BitIds == 0..(Width - 1)

RECURSIVE BitsOf(_, _)
\* the one bits of the natural number n, counted from bit i
BitsOf(n, i) ==
    IF n = 0 \/ i >= Width THEN {}
    ELSE (IF n % 2 = 1 THEN {i} ELSE {}) \cup BitsOf(n \div 2, i + 1)

U32(n) == BitsOf(n, 0)

\* x >> k
ShiftRight(x, k) == { i - k : i \in { j \in x : j >= k } }

\* x << k (bits shifted out of the word are lost)
ShiftLeft(x, k) == { i + k : i \in { j \in x : j + k < Width } }

\* x & y
BitAnd(x, y) == x \cap y

RECURSIVE AddFrom(_, _, _, _)
\* the bits i.. of x + y with carry c into bit i (the carry out of the word is lost)
AddFrom(x, y, i, c) ==
    IF i >= Width THEN {}
    ELSE LET n == (IF i \in x THEN 1 ELSE 0) + (IF i \in y THEN 1 ELSE 0) + c
         IN  (IF n % 2 = 1 THEN {i} ELSE {}) \cup AddFrom(x, y, i + 1, n \div 2)

\* x + y on std::uint32_t
Plus(x, y) == AddFrom(x, y, 0, 0)

Pos(x, y, z) == [x |-> x, y |-> y, z |-> z]

\* ChunkPosition::ChunkPosition(GlobalPosition)
ChunkOf(g) ==
    Pos(ShiftRight(g.x, ChunkShift), ShiftRight(g.y, ChunkShift), ShiftRight(g.z, ChunkShift))

\* mutant: the local mask one bit short
LocalOf_ShortMask(g) ==
    Pos(BitAnd(g.x, U32(15)), BitAnd(g.y, U32(15)), BitAnd(g.z, U32(15)))

\* LocalPosition::LocalPosition(GlobalPosition)
LocalOf(g) ==
    Pos(BitAnd(g.x, U32(LocalMask)), BitAnd(g.y, U32(LocalMask)), BitAnd(g.z, U32(LocalMask)))

\* GlobalPosition::GlobalPosition(ChunkPosition)
GlobalOfChunk(c) ==
    Pos(ShiftLeft(c.x, ChunkShift), ShiftLeft(c.y, ChunkShift), ShiftLeft(c.z, ChunkShift))

\* GlobalPosition::GlobalPosition(LocalPosition)
GlobalOfLocal(l) == Pos(l.x, l.y, l.z)

\* GlobalPosition::operator+
PosPlus(a, b) == Pos(Plus(a.x, b.x), Plus(a.y, b.y), Plus(a.z, b.z))

\* chunk_map::split
Split(g) == [chunk |-> ChunkOf(g), local |-> LocalOf(g)]

\* chunk_map::combine
Combine(c, l) == PosPlus(GlobalOfChunk(c), GlobalOfLocal(l))

\* sampled coordinates: small chunk parts with local parts 0, 1 and 31, and
\* the bitwise complements of those (the top of the 32-bit range)
SampleNats == { 32 * c + l : c \in 0..MaxSampleChunk, l \in {0, 1, 31} }
SampleCoords == { U32(n) : n \in SampleNats } \cup { BitIds \ U32(n) : n \in SampleNats }

InitPos ==
    /\ ViewsIdle
    /\ BucketIdle
    /\ MortonIdle
    /\ ChunkIdle
    /\ RangeIdle
    /\ CecdIdle
    /\ MorphIdle
    /\ gpos \in [x : SampleCoords, y : SampleCoords, z : SampleCoords]
    /\ cpos = ZeroPos
    /\ lpos = ZeroPos
    /\ recombined = ZeroPos
    /\ ppc = "start"

\* auto [c, l] = split(g)
PosSplit ==
    /\ ppc = "start"
    /\ cpos' = Split(gpos).chunk
    /\ lpos' = Split(gpos).local
    /\ ppc' = "split"
    /\ UNCHANGED <<gpos, recombined>>
    /\ PosFrame

\* combine(c, l)
PosCombine ==
    /\ ppc = "split"
    /\ recombined' = Combine(cpos, lpos)
    /\ ppc' = "combined"
    /\ UNCHANGED <<gpos, cpos, lpos>>
    /\ PosFrame

NextPos == PosSplit \/ PosCombine

SpecPos == InitPos /\ [][NextPos]_vars

\* C10: splitting a GlobalPosition g of unsigned 32-bit coordinates into its
\* ChunkPosition (>> 5 per axis) and LocalPosition (& 31 per axis) and
\* recombining them ((chunk << 5) + local per axis) yields exactly g.
C10_SplitCombineRoundTrip ==
    ppc = "combined" => recombined = gpos

\* C10 witness: a recombined position whose x has its top bit and a nonzero
\* local part, and whose y is a small coordinate beyond the first chunk.
C10_Witness ==
    /\ ppc = "combined"
    /\ (Width - 1) \in gpos.x
    /\ lpos.x # {}
    /\ gpos.y = U32(33)
    /\ cpos.y = U32(1) /\ lpos.y = U32(1)


(***************************************************************************)
(* Position ordering.  operator<=> of GlobalPosition, ChunkPosition and    *)
(* LocalPosition compares the Morton codes of the operands; operator== is  *)
(* the defaulted member-wise comparison.                                   *)
(***************************************************************************)
MortonBits == 10

\* morton_encode(x, y, z): bit i of x, y, z goes to bit 3i, 3i + 1, 3i + 2 of
\* the code, for the bits i the loop visits
MortonEncode(x, y, z) ==
    { 3 * i     : i \in { j \in x : j < MortonBits } } \cup
    { 3 * i + 1 : i \in { j \in y : j < MortonBits } } \cup
    { 3 * i + 2 : i \in { j \in z : j < MortonBits } }

RECURSIVE Pow2(_)
Pow2(n) == IF n = 0 THEN 1 ELSE 2 * Pow2(n - 1)

RECURSIVE CodeValue(_)
\* the number a Morton code (at most 30 bits) stands for
CodeValue(code) ==
    IF code = {} THEN 0
    ELSE LET i == CHOOSE j \in code : TRUE
         IN  Pow2(i) + CodeValue(code \ {i})

\* operator<=> of the three position types, read as operator<
PosLess(a, b) ==
    CodeValue(MortonEncode(a.x, a.y, a.z)) < CodeValue(MortonEncode(b.x, b.y, b.z))

\* operator== of the three position types (defaulted)
PosEq(a, b) == a.x = b.x /\ a.y = b.y /\ a.z = b.z

\* sampled operands: coordinates around 0 and around 1024
MortonSamples ==
    [x : {U32(0), U32(1), U32(1024), U32(1025)},
     y : {U32(0), U32(1)},
     z : {U32(0), U32(1024)}]

InitMorton ==
    /\ ViewsIdle
    /\ BucketIdle
    /\ PosIdle
    /\ ChunkIdle
    /\ RangeIdle
    /\ CecdIdle
    /\ MorphIdle
    /\ ma \in MortonSamples
    /\ mb \in MortonSamples
    /\ mc \in MortonSamples
    /\ mres = NoResults
    /\ mpc = "start"

\* a < b, b < a, a == b, b < c, a < c, a < a
PosCompare ==
    /\ mpc = "start"
    /\ mres' = [lt_ab |-> PosLess(ma, mb), lt_ba |-> PosLess(mb, ma),
                eq_ab |-> PosEq(ma, mb),   lt_bc |-> PosLess(mb, mc),
                lt_ac |-> PosLess(ma, mc), lt_aa |-> PosLess(ma, ma)]
    /\ mpc' = "compared"
    /\ UNCHANGED <<ma, mb, mc>>
    /\ MortonFrame

NextMorton == PosCompare

SpecMorton == InitMorton /\ [][NextMorton]_vars

\* C11: operator< on positions is a strict total order consistent with
\* equality: it is irreflexive and transitive, and for any a, b exactly one
\* of a < b, b < a, a == b holds, whatever the unsigned coordinates are.
C11_StrictTotalOrder ==
    mpc = "compared" =>
        /\ ~mres.lt_aa
        /\ (mres.lt_ab /\ mres.lt_bc => mres.lt_ac)
        /\ (mres.lt_ab /\ ~mres.lt_ba /\ ~mres.eq_ab)
           \/ (~mres.lt_ab /\ mres.lt_ba /\ ~mres.eq_ab)
           \/ (~mres.lt_ab /\ ~mres.lt_ba /\ mres.eq_ab)

(***************************************************************************)
(* bucket_map::const_iterator.  An iterator is its key_ member.            *)
(***************************************************************************)
\* bucket_map::capacity
Capacity(m) == Len(m.buckets_) * bits_

\* mutant: advance does not skip unused keys
AdvanceKey_NoSkip(m, key) == key

\* const_iterator::advance: skip to the next used key or to capacity().  The
\* while loop stops at the first k from key_ on where its condition
\* k < capacity() && value_index_at(k) == 0 is false
AdvanceKey(m, key) ==
    IF key >= Capacity(m) THEN key
    ELSE CHOOSE k \in key..Capacity(m) :
            /\ (k >= Capacity(m) \/ ValueIndexAt(m, k) # 0)
            /\ \A j \in key..(k - 1) : ValueIndexAt(m, j) = 0

\* const_iterator(map, k): the constructor advances
IterAt(m, key) == AdvanceKey(m, key)

\* bucket_map::begin
BeginBucket(m) == IterAt(m, 0)

\* bucket_map::end
EndBucket(m) == IterAt(m, Capacity(m))

\* const_iterator::operator++
IncrBucket(m, key) == AdvanceKey(m, key + 1)

\* const_iterator::operator*: the key and the pool value its slot refers to
DerefBucket(m, key) == [first |-> key, second |-> m.values_[ValueIndexAt(m, key) + 1]]

\* bucket_map::find
FindBucket(m, key) == IF ~Contains(m, key) THEN EndBucket(m) ELSE IterAt(m, key)

(***************************************************************************)
(* chunk_map<T, InnerMap>.  chunks_ is a std::map<ChunkPosition, InnerMap>;*)
(* a std::map is the sequence of its entries [first, second] in the order  *)
(* of operator< of the key type, and two keys are the same key of the map  *)
(* when neither is less than the other.                                    *)
(***************************************************************************)
\* std::map::end
OmEnd(m) == Len(m) + 1

\* std::map::find: the entry whose key is equivalent to k, or end()
OmFind(m, k) ==
    LET hits == { i \in 1..Len(m) : ~PosLess(m[i].first, k) /\ ~PosLess(k, m[i].first) }
    IN  IF hits = {} THEN OmEnd(m) ELSE Min(hits)

\* std::map::try_emplace and the insertion of operator[]: an equivalent
\* entry is kept as it is, otherwise [k, v] is inserted in order
OmTryEmplace(m, k, v) ==
    IF OmFind(m, k) # OmEnd(m) THEN m
    ELSE LET n == Cardinality({ i \in 1..Len(m) : PosLess(m[i].first, k) })
         IN  SubSeq(m, 1, n) \o <<[first |-> k, second |-> v]>> \o SubSeq(m, n + 1, Len(m))

\* std::map::erase(iterator)
OmErase(m, i) == SubSeq(m, 1, i - 1) \o SubSeq(m, i + 1, Len(m))

\* LocalPosition::operator std::size_t
KeyOf(lp) == CodeValue(MortonEncode(lp.x, lp.y, lp.z))

\* morton_decode
MortonDecode(code) ==
    Pos({ i \in 0..(MortonBits - 1) : 3 * i \in code },
        { i \in 0..(MortonBits - 1) : 3 * i + 1 \in code },
        { i \in 0..(MortonBits - 1) : 3 * i + 2 \in code })

\* LocalPosition::LocalPosition(std::uint32_t code)
LocalOfCode(n) == MortonDecode(U32(n))

StdMap == InnerMap = "std::map"

\* InnerMap()
InnerNew == IF StdMap THEN <<>> ELSE EmptyMap

\* InnerMap::empty
InnerEmpty(in) == IF StdMap THEN Len(in) = 0 ELSE in.size_ = 0

\* InnerMap::size
InnerSize(in) == IF StdMap THEN Len(in) ELSE in.size_

\* InnerMap::contains (bucket_map_wrapper declares neither contains nor
\* insert_or_assign: the two calls of chunk_map::insert are taken to the
\* wrapped map_)
InnerContains(in, lp) ==
    IF StdMap THEN OmFind(in, lp) # OmEnd(in) ELSE Contains(in, KeyOf(lp))

\* InnerMap::operator[]: the map after the access (a missing key gets T{})
InnerIndex(in, lp) ==
    IF StdMap THEN OmTryEmplace(in, lp, DefaultT) ELSE IndexRef(in, KeyOf(lp))

\* assignment through the T& that bucket_map_wrapper::operator[] returned:
\* const_cast<T&>(map_.at(k)) is the pool slot of the key, written in place
WrapperAssign(m, key, v) == [m EXCEPT !.values_[ValueIndexAt(m, key) + 1] = v]

\* assignment through what InnerMap::operator[] returned: a T& of std::map,
\* the reference proxy of bucket_map, a T& into the pool of bucket_map_wrapper
InnerAssign(in, lp, v) ==
    IF StdMap THEN [in EXCEPT ![OmFind(in, lp)].second = v]
    ELSE IF InnerMap = "bucket_map_wrapper" THEN WrapperAssign(in, KeyOf(lp), v)
    ELSE RefAssign(in, KeyOf(lp), v)

\* InnerMap::insert_or_assign
InnerInsertOrAssign(in, lp, v) ==
    IF StdMap
    THEN LET Assign(m1) == [m1 EXCEPT ![OmFind(m1, lp)].second = v]
         IN  Assign(OmTryEmplace(in, lp, v))
    ELSE InsertOrAssign(in, KeyOf(lp), v)

\* InnerMap::end
InnerEnd(in) == IF StdMap THEN OmEnd(in) ELSE EndBucket(in)

\* InnerMap::begin
InnerBegin(in) == IF StdMap THEN 1 ELSE BeginBucket(in)

\* InnerMap::find
InnerFind(in, lp) == IF StdMap THEN OmFind(in, lp) ELSE FindBucket(in, KeyOf(lp))

\* InnerMap::iterator::operator++
InnerNext(in, it) == IF StdMap THEN it + 1 ELSE IncrBucket(in, it)

\* InnerMap::iterator::operator*
InnerDeref(in, it) ==
    IF StdMap THEN in[it]
    ELSE [first |-> LocalOfCode(DerefBucket(in, it).first),
          second |-> DerefBucket(in, it).second]

\* InnerMap::erase(key)
InnerErase(in, lp) ==
    IF StdMap
    THEN (IF OmFind(in, lp) = OmEnd(in) THEN in ELSE OmErase(in, OmFind(in, lp)))
    ELSE EraseBucket(in, KeyOf(lp)).map

RECURSIVE SumSizes(_, _)
\* std::accumulate over chunks_ of pair.second.size()
SumSizes(ch, i) == IF i > Len(ch) THEN 0 ELSE InnerSize(ch[i].second) + SumSizes(ch, i + 1)

\* chunk_map::size
CmSize(ch) == SumSizes(ch, 1)

\* chunk_map::empty
CmEmpty(ch) == Len(ch) = 0

\* chunk_map::clear
CmClear(ch) == <<>>

\* chunk_map::operator[]: the map after the access
CmIndex(ch, g) ==
    LET InChunk(ch1, s) == [ch1 EXCEPT ![OmFind(ch1, s.chunk)].second = InnerIndex(@, s.local)]
    IN  InChunk(OmTryEmplace(ch, Split(g).chunk, InnerNew), Split(g))

\* the element operator[] refers to
CmIndexValue(ch, g) ==
    LET s == Split(g)
        in == ch[OmFind(ch, s.chunk)].second
    IN  InnerDeref(in, InnerFind(in, s.local)).second

\* m[g] = v
CmIndexAssign(ch, g, v) ==
    LET Through(ch1, s) == [ch1 EXCEPT ![OmFind(ch1, s.chunk)].second = InnerAssign(@, s.local, v)]
    IN  Through(CmIndex(ch, g), Split(g))

\* chunk_map::at: the map afterwards, whether it threw, the value returned
CmAt(ch, g) ==
    LET s == Split(g)
        itChunk == OmFind(ch, s.chunk)
    IN  IF itChunk = OmEnd(ch) THEN [map |-> ch, thrown |-> TRUE, value |-> DefaultT]
        ELSE LET in == ch[itChunk].second
                 itLocal == InnerFind(in, s.local)
             IN  IF itLocal = InnerEnd(in)
                 THEN [map |-> ch, thrown |-> TRUE, value |-> DefaultT]
                 ELSE [map |-> ch, thrown |-> FALSE, value |-> InnerDeref(in, itLocal).second]

\* chunk_map::end: iterator(this, chunks_.end(), InnerMap::iterator())
CmEnd(ch) == [outer |-> OmEnd(ch), inner |-> 0]

\* chunk_map::find: the map afterwards and the iterator returned
CmFind(ch, g) ==
    LET Local(itChunk, in, itLocal) ==
            IF itLocal = InnerEnd(in) THEN [map |-> ch, it |-> CmEnd(ch)]
            ELSE [map |-> ch, it |-> [outer |-> itChunk, inner |-> itLocal]]
        Chunk(itChunk, lp) ==
            IF itChunk = OmEnd(ch) THEN [map |-> ch, it |-> CmEnd(ch)]
            ELSE Local(itChunk, ch[itChunk].second, InnerFind(ch[itChunk].second, lp))
    IN  Chunk(OmFind(ch, Split(g).chunk), Split(g).local)

\* chunk_map::insert(value_type)
CmInsert(ch, g, v) ==
    LET Result(ch2, outerIt, lp, existed) ==
            [map |-> ch2,
             it |-> [outer |-> outerIt, inner |-> InnerFind(ch2[outerIt].second, lp)],
             inserted |-> ~existed]
        Checked(ch1, outerIt, lp, existed) ==
            Result(IF ~existed
                   THEN [ch1 EXCEPT ![outerIt].second = InnerInsertOrAssign(@, lp, v)]
                   ELSE ch1,
                   outerIt, lp, existed)
        Emplaced(ch1, outerIt, lp) ==
            Checked(ch1, outerIt, lp, InnerContains(ch1[outerIt].second, lp))
        In(ch1, s) == Emplaced(ch1, OmFind(ch1, s.chunk), s.local)
    IN  In(OmTryEmplace(ch, Split(g).chunk, InnerNew), Split(g))

\* mutant: the chunk entry stays when its last key is erased
CmErase_KeepChunk(ch, g) ==
    LET s == Split(g)
        itChunk == OmFind(ch, s.chunk)
    IN  IF itChunk = OmEnd(ch) THEN [map |-> ch, ret |-> 0]
        ELSE IF InnerFind(ch[itChunk].second, s.local) = InnerEnd(ch[itChunk].second)
             THEN [map |-> ch, ret |-> 0]
             ELSE [map |-> [ch EXCEPT ![itChunk].second = InnerErase(@, s.local)], ret |-> 1]

\* chunk_map::erase: the map afterwards and the count returned
CmErase(ch, g) ==
    LET s == Split(g)
        itChunk == OmFind(ch, s.chunk)
    IN  IF itChunk = OmEnd(ch) THEN [map |-> ch, ret |-> 0]
        ELSE IF InnerFind(ch[itChunk].second, s.local) = InnerEnd(ch[itChunk].second)
             THEN [map |-> ch, ret |-> 0]
             ELSE LET ch1 == [ch EXCEPT ![itChunk].second = InnerErase(@, s.local)]
                  IN  [map |-> IF InnerEmpty(ch1[itChunk].second)
                               THEN OmErase(ch1, itChunk) ELSE ch1,
                       ret |-> 1]

\* chunk_map::begin: the first element of the first non-empty chunk
CmBegin(ch) ==
    LET filled == { i \in 1..Len(ch) : ~InnerEmpty(ch[i].second) }
    IN  IF filled = {} THEN CmEnd(ch)
        ELSE [outer |-> Min(filled), inner |-> InnerBegin(ch[Min(filled)].second)]

\* chunk_map::iterator::operator==
CmIterEq(ch, a, b) == a.outer = b.outer /\ (a.outer = OmEnd(ch) \/ a.inner = b.inner)

\* chunk_map::iterator::operator*
CmDeref(ch, it) ==
    LET e == InnerDeref(ch[it.outer].second, it.inner)
    IN  [first |-> Combine(ch[it.outer].first, e.first), second |-> e.second]

RECURSIVE CmNextChunk(_, _, _)
\* the loop of chunk_map::iterator::operator++
CmNextChunk(ch, outerIt, innerIt) ==
    IF outerIt # OmEnd(ch) /\ innerIt = InnerEnd(ch[outerIt].second)
    THEN IF outerIt + 1 = OmEnd(ch) THEN [outer |-> outerIt + 1, inner |-> innerIt]
         ELSE CmNextChunk(ch, outerIt + 1, InnerBegin(ch[outerIt + 1].second))
    ELSE [outer |-> outerIt, inner |-> innerIt]

\* mutant: operator++ stays in its chunk
CmIncr_SameChunk(ch, it) ==
    [outer |-> IF InnerNext(ch[it.outer].second, it.inner) = InnerEnd(ch[it.outer].second)
               THEN OmEnd(ch) ELSE it.outer,
     inner |-> InnerNext(ch[it.outer].second, it.inner)]

\* chunk_map::iterator::operator++
CmIncr(ch, it) == CmNextChunk(ch, it.outer, InnerNext(ch[it.outer].second, it.inner))

RECURSIVE CmIterateFrom(_, _)
\* for (auto it = from; it != end(); ++it) visit *it
CmIterateFrom(ch, it) ==
    IF CmIterEq(ch, it, CmEnd(ch)) THEN <<>>
    ELSE <<CmDeref(ch, it)>> \o CmIterateFrom(ch, CmIncr(ch, it))

\* for (auto const& [gp, v] : map)
CmIterate(ch) == CmIterateFrom(ch, CmBegin(ch))

(***************************************************************************)
(* One chunk_map driven by an arbitrary caller.                            *)
(***************************************************************************)
\* the positions callers use: two in chunk (0,0,0), one in chunk (1,0,0) and
\* one in chunk (1024,0,0)
ChunkKeys ==
    { Pos(U32(1), U32(0), U32(0)), Pos(U32(0), U32(1), U32(0)),
      Pos(U32(32), U32(0), U32(0)), Pos(U32(32769), U32(0), U32(0)) }

ChunkValues == {1, 2}

\* all coordinates of g are below 1024
Small(g) == \A i \in g.x \cup g.y \cup g.z : i < MortonBits

\* the std::map-backed map is driven over all of ChunkKeys, the
\* bucket_map-backed map over the positions below 1024
CallKeys == IF StdMap THEN ChunkKeys ELSE { g \in ChunkKeys : Small(g) }

\* calls that would grow the pool of an inner bucket_map beyond the bound
\* are not taken
CmFits(ch) == \A i \in 1..Len(ch) : IF StdMap THEN TRUE ELSE PoolFits(ch[i].second)

Put(f, k, v) == [j \in (DOMAIN f) \cup {k} |-> IF j = k THEN v ELSE f[j]]

Drop(f, k) == [j \in (DOMAIN f) \ {k} |-> f[j]]

\* the record of a call with arguments g, v made in the current state
Call(op, g, v) ==
    [NoCall EXCEPT !.op = op, !.key = g, !.val = v,
                   !.sizeBefore = CmSize(chunks_),
                   !.wasPresent = (g \in DOMAIN written),
                   !.oldValue = IF g \in DOMAIN written THEN written[g] ELSE DefaultT]

InitChunk ==
    /\ ViewsIdle
    /\ BucketIdle
    /\ PosIdle
    /\ MortonIdle
    /\ RangeIdle
    /\ CecdIdle
    /\ MorphIdle
    /\ InnerMap \in {"std::map", "bucket_map"}
    /\ chunks_ = <<>>
    /\ written = <<>>
    /\ usedLarge = FALSE
    /\ cret = NoCall

\* m[g] = v
ChunkIndexAssign ==
    \E g \in CallKeys, v \in ChunkValues :
        LET m == CmIndexAssign(chunks_, g, v)
        IN  /\ cret = NoCall
            /\ CmFits(m)
            /\ chunks_' = m
            /\ written' = Put(written, g, v)
            /\ usedLarge' = (usedLarge \/ ~Small(g))
            /\ cret' = [Call("assign", g, v) EXCEPT !.same = (m = chunks_)]
            /\ UNCHANGED InnerMap
            /\ ChunkFrame

\* m[g] read without assigning
ChunkIndex ==
    \E g \in CallKeys :
        LET m == CmIndex(chunks_, g)
        IN  /\ cret = NoCall
            /\ CmFits(m)
            /\ chunks_' = m
            /\ written' = IF g \in DOMAIN written THEN written ELSE Put(written, g, DefaultT)
            /\ usedLarge' = (usedLarge \/ ~Small(g))
            /\ cret' = [Call("index", g, 0) EXCEPT !.same = (m = chunks_),
                                                   !.value = CmIndexValue(m, g)]
            /\ UNCHANGED InnerMap
            /\ ChunkFrame

\* m.insert({g, v})
ChunkInsert ==
    \E g \in CallKeys, v \in ChunkValues :
        LET r == CmInsert(chunks_, g, v)
        IN  /\ cret = NoCall
            /\ CmFits(r.map)
            /\ chunks_' = r.map
            /\ written' = IF g \in DOMAIN written THEN written ELSE Put(written, g, v)
            /\ usedLarge' = (usedLarge \/ ~Small(g))
            /\ cret' = [Call("insert", g, v) EXCEPT !.same = (r.map = chunks_),
                                                    !.ok = r.inserted, !.it = r.it]
            /\ UNCHANGED InnerMap
            /\ ChunkFrame

\* m.erase(g)
ChunkErase ==
    \E g \in CallKeys :
        LET r == CmErase(chunks_, g)
        IN  /\ cret = NoCall
            /\ chunks_' = r.map
            /\ written' = Drop(written, g)
            /\ usedLarge' = (usedLarge \/ ~Small(g))
            /\ cret' = [Call("erase", g, 0) EXCEPT !.same = (r.map = chunks_), !.ret = r.ret]
            /\ UNCHANGED InnerMap
            /\ ChunkFrame

\* m.clear()
ChunkClear ==
    /\ cret = NoCall
    /\ chunks_ # <<>>
    /\ chunks_' = CmClear(chunks_)
    /\ written' = <<>>
    /\ usedLarge' = FALSE
    /\ cret' = [Call("clear", ZeroPos, 0) EXCEPT !.same = (CmClear(chunks_) = chunks_)]
    /\ UNCHANGED InnerMap
    /\ ChunkFrame

\* m.at(g), the exception caught by the caller
ChunkAt ==
    \E g \in CallKeys :
        LET r == CmAt(chunks_, g)
        IN  /\ cret = NoCall
            /\ chunks_' = r.map
            /\ cret' = [Call("at", g, 0) EXCEPT !.same = (r.map = chunks_),
                                                !.thrown = r.thrown, !.value = r.value]
            /\ UNCHANGED <<InnerMap, written, usedLarge>>
            /\ ChunkFrame

\* m.find(g)
ChunkFind ==
    \E g \in CallKeys :
        LET r == CmFind(chunks_, g)
        IN  /\ cret = NoCall
            /\ chunks_' = r.map
            /\ cret' = [Call("find", g, 0) EXCEPT !.same = (r.map = chunks_),
                                                  !.ok = ~CmIterEq(r.map, r.it, CmEnd(r.map)),
                                                  !.it = r.it]
            /\ UNCHANGED <<InnerMap, written, usedLarge>>
            /\ ChunkFrame

\* for (auto const& [gp, v] : m) seq.push_back({gp, v})
ChunkIterate ==
    /\ cret = NoCall
    /\ cret' = [Call("iterate", ZeroPos, 0) EXCEPT !.seq = CmIterate(chunks_)]
    /\ UNCHANGED <<InnerMap, chunks_, written, usedLarge>>
    /\ ChunkFrame

\* the caller is done with what the call returned
ChunkReturn ==
    /\ cret # NoCall
    /\ cret' = NoCall
    /\ UNCHANGED <<InnerMap, chunks_, written, usedLarge>>
    /\ ChunkFrame

NextChunk ==
    \/ ChunkIndexAssign
    \/ ChunkIndex
    \/ ChunkInsert
    \/ ChunkErase
    \/ ChunkClear
    \/ ChunkAt
    \/ ChunkFind
    \/ ChunkIterate
    \/ ChunkReturn

SpecChunk == InitChunk /\ [][NextChunk]_vars

\* C12: a chunk_map agrees with an exact finite map keyed by the coordinate
\* triple, for positions over the whole unsigned range: at and find report
\* the most recent value of a present position, a position is absent exactly
\* when it was never written or was erased, and size() is the number of
\* present positions.
C12_AgreesWithExactMap ==
    /\ CmSize(chunks_) = Cardinality(DOMAIN written)
    /\ \A g \in ChunkKeys :
          LET a == CmAt(chunks_, g)
              f == CmFind(chunks_, g).it
          IN  /\ a.thrown <=> g \notin DOMAIN written
              /\ ~a.thrown /\ g \in DOMAIN written => a.value = written[g]
              /\ CmIterEq(chunks_, f, CmEnd(chunks_)) <=> g \notin DOMAIN written
              /\ ~CmIterEq(chunks_, f, CmEnd(chunks_)) /\ g \in DOMAIN written =>
                    CmDeref(chunks_, f) = [first |-> g, second |-> written[g]]

\* C13: no chunk entry ever has an empty inner map, so empty() and
\* size() = 0 agree; an erase that removes the last key of a chunk removes
\* the chunk entry in the same call and size() drops by one; a write to a
\* position creates the chunk entry holding it.
C13_NoEmptyChunk ==
    /\ \A i \in 1..Len(chunks_) : ~InnerEmpty(chunks_[i].second)
    /\ CmEmpty(chunks_) <=> CmSize(chunks_) = 0
    /\ (cret.op = "erase" /\ cret.ret = 1) => CmSize(chunks_) = cret.sizeBefore - 1
    /\ cret.op \in {"assign", "index", "insert"} =>
          LET s == Split(cret.key)
              i == OmFind(chunks_, s.chunk)
          IN  i # OmEnd(chunks_) /\ InnerContains(chunks_[i].second, s.local)

\* C13 witness: a bucket_map-backed map from which the only key of chunk
\* (1,0,0) has just been erased while chunk (0,0,0) still holds keys.
C13_Witness ==
    /\ InnerMap = "bucket_map"
    /\ cret.op = "erase" /\ cret.ret = 1
    /\ cret.key = Pos(U32(32), U32(0), U32(0))
    /\ OmFind(chunks_, Split(cret.key).chunk) = OmEnd(chunks_)
    /\ Len(chunks_) = 1
    /\ CmSize(chunks_) = 2

\* C14: insert stores the value and returns (iterator to it, true) when the
\* key is absent; when the key is present it leaves value and size unchanged
\* and returns (iterator to the existing element, false).
C14_InsertIfAbsent ==
    cret.op = "insert" =>
        IF ~cret.wasPresent
        THEN /\ cret.ok
             /\ CmDeref(chunks_, cret.it) = [first |-> cret.key, second |-> cret.val]
             /\ CmSize(chunks_) = cret.sizeBefore + 1
        ELSE /\ ~cret.ok
             /\ CmDeref(chunks_, cret.it) = [first |-> cret.key, second |-> cret.oldValue]
             /\ CmSize(chunks_) = cret.sizeBefore


\* C15: on a chunk_map that was only given positions with coordinates below
\* 1024, iteration visits every present key exactly once, yields the
\* position that was written, and the keys come strictly ascending under
\* operator< of GlobalPosition.
C15_IterationAscending ==
    (cret.op = "iterate" /\ ~usedLarge) =>
        /\ Len(cret.seq) = Cardinality(DOMAIN written)
        /\ { cret.seq[i].first : i \in 1..Len(cret.seq) } = DOMAIN written
        /\ \A i \in 1..Len(cret.seq) : \A j \in 1..Len(cret.seq) :
              i < j => PosLess(cret.seq[i].first, cret.seq[j].first)

\* C15 witness: an iteration over all three small positions, two of them
\* in one chunk, where the Morton order differs from the x-major order.
C15_Witness ==
    /\ cret.op = "iterate" /\ ~usedLarge
    /\ Len(cret.seq) = 3
    /\ Len(chunks_) = 2
    /\ cret.seq[1].first = Pos(U32(1), U32(0), U32(0))
    /\ cret.seq[2].first = Pos(U32(0), U32(1), U32(0))
    /\ cret.seq[3].first = Pos(U32(32), U32(0), U32(0))

\* C16: at on an absent key throws and changes nothing; a failed at and a
\* find that returns end() create no chunk entry and no local entry, and
\* size() stays as it was.
C16_AtAbsentThrows ==
    /\ (cret.op = "at" /\ ~cret.wasPresent) => cret.thrown
    /\ (cret.op = "at" /\ cret.thrown) =>
          cret.same /\ CmSize(chunks_) = cret.sizeBefore
    /\ (cret.op = "find" /\ ~cret.ok) =>
          cret.same /\ CmSize(chunks_) = cret.sizeBefore


(***************************************************************************)
(* bucket_map: clear, insert_range and iteration, on one map dst driven by *)
(* an arbitrary caller.                                                    *)
(***************************************************************************)
\* bucket_map::empty
EmptyBucket(m) == m.size_ = 0

\* bucket_map::size
SizeBucket(m) == m.size_

\* bucket_map::clear
ClearBucket(m) == Map(Resize(m.buckets_, 0), <<DefaultT>>, 0)

\* the keys the loops of insert_range replay: every slot with vi != 0, in
\* the order of the loops (bucket, then bit)
UsedKeys(m) == AscList({ key \in 0..(Capacity(m) - 1) : ValueIndexAt(m, key) # 0 })

RECURSIVE ReplayCopy(_, _, _)
\* the loops of insert_range(const bucket_map&)
ReplayCopy(m, other, keys) ==
    IF keys = <<>> THEN m
    ELSE LET key == Head(keys)
             vi == ValueIndexAt(other, key)
         IN  ReplayCopy(InsertOrAssign(m, key, other.values_[vi + 1]), other, Tail(keys))

\* bucket_map::insert_range(const bucket_map& other)
InsertRangeCopy(m, other) ==
    IF EmptyBucket(other) THEN m
    ELSE IF EmptyBucket(m) THEN Map(other.buckets_, other.values_, other.size_)
    ELSE ReplayCopy(m, other, UsedKeys(other))

\* what a T holds after it was moved from: its old value (a trivially
\* movable T) or some value of T that the implementation of T leaves there
MovedFromStates == { [kept |-> TRUE, v |-> DefaultT] } \cup { [kept |-> FALSE, v |-> x] : x \in Values }

MovedFrom(val, mf) == IF mf.kept THEN val ELSE mf.v

RECURSIVE ReplayMove(_, _, _, _, _)
\* the loops of insert_range(bucket_map&&): the first key of a pool index
\* hands std::move(other.values_[vi]) to insert_or_assign, which moves from
\* it only when it appends to values_; later keys of that index hand over
\* other.values_[vi] as it is then
ReplayMove(m, other, keys, moved, mf) ==
    IF keys = <<>> THEN [map |-> m, other |-> other]
    ELSE LET key == Head(keys)
             vi == ValueIndexAt(other, key)
             m1 == InsertOrAssign(m, key, other.values_[vi + 1])
             appended == Len(m1.values_) > Len(m.values_)
             other1 == IF vi \notin moved /\ appended
                       THEN [other EXCEPT !.values_[vi + 1] = MovedFrom(@, mf)]
                       ELSE other
         IN  ReplayMove(m1, other1, Tail(keys), moved \cup {vi}, mf)

\* bucket_map::insert_range(bucket_map&& other): dst and other afterwards
InsertRangeMove(m, other, mf) ==
    IF EmptyBucket(other) THEN [map |-> m, other |-> other]
    ELSE IF EmptyBucket(m)
         THEN [map |-> Map(other.buckets_, other.values_, other.size_),
               other |-> ClearBucket(other)]
         ELSE LET r == ReplayMove(m, other, UsedKeys(other), {}, mf)
              IN  [map |-> r.map, other |-> ClearBucket(r.other)]

RECURSIVE IterateFrom(_, _)
\* for (auto it = from; it != end(); ++it) visit *it
IterateFrom(m, it) ==
    IF it = EndBucket(m) THEN <<>>
    ELSE <<DerefBucket(m, it)>> \o IterateFrom(m, IncrBucket(m, it))

\* for (auto const& [k, v] : map)
IterateBucket(m) == IterateFrom(m, BeginBucket(m))

\* the keys callers use: buckets 0 and 2, so that bucket 1 stays empty
RangeKeys == {0, 1, 2 * bits_}

RECURSIVE Build(_)
\* the map a caller gets from a fresh map by insert_or_assign of each pair
Build(pairs) ==
    IF pairs = <<>> THEN EmptyMap
    ELSE InsertOrAssign(Build(SubSeq(pairs, 1, Len(pairs) - 1)),
                        pairs[Len(pairs)][1], pairs[Len(pairs)][2])

\* the maps handed to insert_range as other
RangeInputs ==
    { Build(<<>>),
      Build(<<<<0, 1>>>>),
      Build(<<<<0, 1>>, <<1, 1>>>>),
      Build(<<<<0, 2>>, <<1, 1>>>>),
      Build(<<<<1, 2>>, <<2 * bits_, 2>>>>) }

\* what an exact finite map holds for the contents of m
HeldBy(m) ==
    [key \in { k \in 0..(Capacity(m) - 1) : Contains(m, k) } |-> AtBucket(m, key).value]

\* f overwritten by g
Overlay(f, g) ==
    [k \in (DOMAIN f) \cup (DOMAIN g) |-> IF k \in DOMAIN g THEN g[k] ELSE f[k]]

RangeCall(op, key, val) ==
    [NoRangeCall EXCEPT !.op = op, !.key = key, !.val = val,
                        !.sizeBefore = SizeBucket(dst),
                        !.contained = Contains(dst, key),
                        !.heldBefore = held]

InitRange ==
    /\ ViewsIdle
    /\ BucketIdle
    /\ PosIdle
    /\ MortonIdle
    /\ ChunkIdle
    /\ CecdIdle
    /\ MorphIdle
    /\ dst = EmptyMap
    /\ held = <<>>
    /\ rcall = NoRangeCall

\* dst.insert_or_assign(key, val)
RangeInsertOrAssign ==
    \E key \in RangeKeys, val \in Values :
        LET m == InsertOrAssign(dst, key, val)
        IN  /\ rcall = NoRangeCall
            /\ PoolFits(m)
            /\ dst' = m
            /\ held' = Put(held, key, val)
            /\ rcall' = RangeCall("insert_or_assign", key, val)
            /\ RangeFrame

\* dst[key] = val, and dst[key] without assignment (val = T{} on a missing key)
RangeIndex ==
    \E key \in RangeKeys, assign \in BOOLEAN, val \in Values :
        LET m == IF assign THEN RefAssign(IndexRef(dst, key), key, val) ELSE IndexRef(dst, key)
        IN  /\ rcall = NoRangeCall
            /\ ~assign => val = DefaultT
            /\ PoolFits(m)
            /\ dst' = m
            /\ held' = IF assign THEN Put(held, key, val)
                       ELSE IF key \in DOMAIN held THEN held ELSE Put(held, key, DefaultT)
            /\ rcall' = RangeCall("index", key, val)
            /\ RangeFrame

\* dst.erase(key)
RangeErase ==
    \E key \in RangeKeys :
        LET r == EraseBucket(dst, key)
        IN  /\ rcall = NoRangeCall
            /\ dst' = r.map
            /\ held' = Drop(held, key)
            /\ rcall' = [RangeCall("erase", key, 0) EXCEPT !.ret = r.ret,
                                                            !.same = (r.map = dst)]
            /\ RangeFrame

\* dst.clear()
RangeClear ==
    /\ rcall = NoRangeCall
    /\ dst' = ClearBucket(dst)
    /\ held' = <<>>
    /\ rcall' = RangeCall("clear", 0, 0)
    /\ RangeFrame

\* dst.insert_range(other)
RangeInsertCopy ==
    \E other \in RangeInputs :
        LET m == InsertRangeCopy(dst, other)
        IN  /\ rcall = NoRangeCall
            /\ PoolFits(m)
            /\ dst' = m
            /\ held' = Overlay(held, HeldBy(other))
            /\ rcall' = [RangeCall("copy", 0, 0) EXCEPT !.src = HeldBy(other), !.other = other]
            /\ RangeFrame

\* dst.insert_range(std::move(other))
RangeInsertMove ==
    \E other \in RangeInputs, mf \in MovedFromStates :
        LET r == InsertRangeMove(dst, other, mf)
        IN  /\ rcall = NoRangeCall
            /\ PoolFits(r.map)
            /\ dst' = r.map
            /\ held' = Overlay(held, HeldBy(other))
            /\ rcall' = [RangeCall("move", 0, 0) EXCEPT !.src = HeldBy(other), !.other = r.other]
            /\ RangeFrame

\* for (auto const& [k, v] : dst) seq.push_back({k, v})
RangeIterate ==
    /\ rcall = NoRangeCall
    /\ rcall' = [RangeCall("iterate", 0, 0) EXCEPT !.seq = IterateBucket(dst)]
    /\ UNCHANGED <<dst, held>>
    /\ RangeFrame

\* the caller is done with what the call returned
RangeReturn ==
    /\ rcall # NoRangeCall
    /\ rcall' = NoRangeCall
    /\ UNCHANGED <<dst, held>>
    /\ RangeFrame

NextRange ==
    \/ RangeInsertOrAssign
    \/ RangeIndex
    \/ RangeErase
    \/ RangeClear
    \/ RangeInsertCopy
    \/ RangeInsertMove
    \/ RangeIterate
    \/ RangeReturn

SpecRange == InitRange /\ [][NextRange]_vars

\* the keys contains() reports
Present(m) == { key \in 0..(Capacity(m) - 1) : Contains(m, key) }

\* C17: iterating a bucket_map from begin to end yields exactly the keys
\* whose slot is nonzero, each once, in strictly ascending key order, also
\* with empty buckets between used ones and after the last keys were erased.
C17_IterationExact ==
    rcall.op = "iterate" =>
        /\ { rcall.seq[i].first : i \in 1..Len(rcall.seq) } = Present(dst)
        /\ \A i \in 1..Len(rcall.seq) : \A j \in 1..Len(rcall.seq) :
              i < j => rcall.seq[i].first < rcall.seq[j].first
        /\ \A i \in 1..Len(rcall.seq) :
              rcall.seq[i].second = AtBucket(dst, rcall.seq[i].first).value

\* C17 witness: an iteration over a map of three buckets whose bucket 1 was
\* never used and whose key in bucket 2 was erased again.
C17_Witness ==
    /\ rcall.op = "iterate"
    /\ Len(dst.buckets_) = 3
    /\ ~Contains(dst, 2 * bits_)
    /\ Len(rcall.seq) = 2
    /\ rcall.seq[1].first = 0 /\ rcall.seq[2].first = 1

\* C18: after dst.insert_range(std::move(src)) on a non-empty dst, dst.at(k)
\* is the value src held for every key k of src (also when keys of src share
\* a pooled value), every other key of dst keeps its value, dst.size() is
\* the number of keys of the union, and src is empty.
C18_MoveInsertRange ==
    (rcall.op = "move" /\ rcall.sizeBefore > 0) =>
        /\ \A k \in DOMAIN rcall.src :
              ~AtBucket(dst, k).thrown /\ AtBucket(dst, k).value = rcall.src[k]
        /\ \A k \in (DOMAIN rcall.heldBefore) \ (DOMAIN rcall.src) :
              ~AtBucket(dst, k).thrown /\ AtBucket(dst, k).value = rcall.heldBefore[k]
        /\ SizeBucket(dst) = Cardinality((DOMAIN rcall.heldBefore) \cup (DOMAIN rcall.src))
        /\ EmptyBucket(rcall.other) /\ Present(rcall.other) = {}

\* C19: size() is the number of keys for which contains is true and empty()
\* holds exactly when that number is 0, after every operation; erase returns
\* 1 and decrements size() when the key was present, and returns 0 and
\* changes nothing otherwise.
C19_SizeCountsKeys ==
    /\ SizeBucket(dst) = Cardinality(Present(dst))
    /\ EmptyBucket(dst) <=> Present(dst) = {}
    /\ rcall.op = "erase" =>
          IF rcall.contained
          THEN rcall.ret = 1 /\ SizeBucket(dst) = rcall.sizeBefore - 1
          ELSE rcall.ret = 0 /\ SizeBucket(dst) = rcall.sizeBefore /\ rcall.same

\* C19 witness: an insert_range by move into a non-empty map whose keys
\* overlap the source.
C19_Witness ==
    /\ rcall.op = "move"
    /\ rcall.sizeBefore = 2
    /\ Cardinality(DOMAIN rcall.src) = 2
    /\ SizeBucket(dst) = 3

(***************************************************************************)
(* layered_map_algo.h: voxel morphology and the core expanding convex      *)
(* decomposition.  A layered_map is a chunk_map over bucket_map_wrapper,   *)
(* given by its chunks_; the operators below are evaluated with InnerMap   *)
(* "bucket_map_wrapper".                                                   *)
(***************************************************************************)
\* cardinal_offsets
cardinal_offsets ==
    << <<1, 0, 0>>, <<-1, 0, 0>>, <<0, 1, 0>>, <<0, -1, 0>>, <<0, 0, 1>>, <<0, 0, -1>> >>

\* the lambda add of offset: v = static_cast<int>(a) + d, failure when v < 0.
\* static_cast<int> reads the 32 bits as two's complement; INT_MAX + 1 and
\* INT_MIN - 1 overflow the int, which is undefined: the call then either
\* fails or yields the wrapped sum, as ovf says
Add(a, d, ovf) ==
    LET Sum(v) ==
            IF (d = 1 /\ a = 0..(Width - 2)) \/ (d = -1 /\ a = {Width - 1})
            THEN [ok |-> ovf, res |-> v]
            ELSE [ok |-> (Width - 1) \notin v, res |-> v]
    IN  Sum(IF d = 0 THEN a ELSE IF d = 1 THEN Plus(a, U32(1)) ELSE Plus(a, BitIds))

\* offset: whether the neighbour exists, and the neighbour
Offset(p, dx, dy, dz, ovf) ==
    LET Out(nx, ny, nz) ==
            IF ~nx.ok THEN [ok |-> FALSE, out |-> ZeroPos]
            ELSE IF ~ny.ok THEN [ok |-> FALSE, out |-> ZeroPos]
            ELSE IF ~nz.ok THEN [ok |-> FALSE, out |-> ZeroPos]
            ELSE [ok |-> TRUE, out |-> Pos(nx.res, ny.res, nz.res)]
    IN  Out(Add(p.x, dx, ovf), Add(p.y, dy, ovf), Add(p.z, dz, ovf))

\* offset called with the d-th of the cardinal_offsets
Neighbour(p, d, ovf) ==
    Offset(p, cardinal_offsets[d][1], cardinal_offsets[d][2], cardinal_offsets[d][3], ovf)

\* chunk_map::find(g) != cend()
CmHas(ch, g) == ~CmIterEq(ch, CmFind(ch, g).it, CmEnd(ch))

\* The loops below are recursions that carry the map being built; the map of
\* one iteration is computed (the test Len(..) >= 0) before the next
\* iteration starts.  A loop over the elements lo..hi of a sequence runs its
\* first half and then, on the map that half has built, its second half.

RECURSIVE ExtrudeOne(_, _, _, _)
\* the inner loop of extrude for the element e from direction d on:
\* if (offset(gp, dx, dy, dz, n)) out[n] = val
ExtrudeOne(acc, e, d, ovf) ==
    LET Write(n) == IF n.ok THEN CmIndexAssign(acc, n.out, e.second) ELSE acc
        Then(acc1) == IF Len(acc1) >= 0 THEN ExtrudeOne(acc1, e, d + 1, ovf) ELSE acc1
    IN  IF d > Len(cardinal_offsets) THEN acc
        ELSE Then(Write(Neighbour(e.first, d, ovf)))

RECURSIVE ExtrudeInto(_, _, _, _, _)
\* the outer loop of extrude over the elements lo..hi
ExtrudeInto(acc, elems, lo, hi, ovf) ==
    LET Then(acc1, mid) ==
            IF Len(acc1) >= 0 THEN ExtrudeInto(acc1, elems, mid + 1, hi, ovf) ELSE acc1
        Halves(mid) == Then(ExtrudeInto(acc, elems, lo, mid, ovf), mid)
    IN  IF lo > hi THEN acc
        ELSE IF lo = hi THEN ExtrudeOne(acc, elems[lo], 1, ovf)
        ELSE Halves((lo + hi) \div 2)

\* extrude
Extrude(map, ovf) ==
    LET Loop(elems) == ExtrudeInto(map, elems, 1, Len(elems), ovf)
    IN  Loop(CmIterate(map))

\* the inner loop of inset: all_neighbors
AllNeighbors(map, gp, ovf) ==
    LET Found(n) == IF n.ok THEN CmHas(map, n.out) ELSE FALSE
    IN  \A d \in 1..Len(cardinal_offsets) : Found(Neighbour(gp, d, ovf))

RECURSIVE InsetInto(_, _, _, _, _, _)
\* the outer loop of inset over the elements lo..hi:
\* if (all_neighbors) out[gp] = val
InsetInto(acc, map, elems, lo, hi, ovf) ==
    LET Then(acc1, mid) ==
            IF Len(acc1) >= 0 THEN InsetInto(acc1, map, elems, mid + 1, hi, ovf) ELSE acc1
        Halves(mid) == Then(InsetInto(acc, map, elems, lo, mid, ovf), mid)
    IN  IF lo > hi THEN acc
        ELSE IF lo = hi
             THEN IF AllNeighbors(map, elems[lo].first, ovf)
                  THEN CmIndexAssign(acc, elems[lo].first, elems[lo].second) ELSE acc
        ELSE Halves((lo + hi) \div 2)

\* inset
Inset(map, ovf) ==
    LET Loop(elems) == InsetInto(<<>>, map, elems, 1, Len(elems), ovf)
    IN  Loop(CmIterate(map))

RECURSIVE DetectLoop(_, _, _)
\* the loop of detect_core: while (!cur.empty()) { prev = cur; cur = inset(cur); }
DetectLoop(prev, cur, ovf) ==
    LET Then(cur1) == IF Len(cur1) >= 0 THEN DetectLoop(cur, cur1, ovf) ELSE cur
    IN  IF CmEmpty(cur) THEN prev ELSE Then(Inset(cur, ovf))

\* detect_core
DetectCore(map, ovf) == DetectLoop(map, map, ovf)

RECURSIVE InsertAll(_, _, _, _)
\* for (auto const& [gp, v] : elems) acc.insert({gp, v}), over the elements lo..hi
InsertAll(acc, elems, lo, hi) ==
    LET Then(acc1, mid) ==
            IF Len(acc1) >= 0 THEN InsertAll(acc1, elems, mid + 1, hi) ELSE acc1
        Halves(mid) == Then(InsertAll(acc, elems, lo, mid), mid)
    IN  IF lo > hi THEN acc
        ELSE IF lo = hi THEN CmInsert(acc, elems[lo].first, elems[lo].second).map
        ELSE Halves((lo + hi) \div 2)

RECURSIVE AddedFrom(_, _, _, _, _)
\* the loop of expand_convex over the elements lo..hi of front:
\* it = remaining.find(gp); if (it != remaining.cend()) added.insert({gp, it->second})
AddedFrom(acc, front, remain, lo, hi) ==
    LET Found(it) ==
            IF ~CmIterEq(remain, it, CmEnd(remain))
            THEN CmInsert(acc, front[lo].first, CmDeref(remain, it).second).map
            ELSE acc
        Then(acc1, mid) ==
            IF Len(acc1) >= 0 THEN AddedFrom(acc1, front, remain, mid + 1, hi) ELSE acc1
        Halves(mid) == Then(AddedFrom(acc, front, remain, lo, mid), mid)
    IN  IF lo > hi THEN acc
        ELSE IF lo = hi THEN Found(CmFind(remain, front[lo].first).it)
        ELSE Halves((lo + hi) \div 2)

RECURSIVE ExpandLoop(_, _, _, _)
\* the while (true) of expand_convex
ExpandLoop(hull, front, remain, ovf) ==
    LET Grown(added, hull1) ==
            IF CmSize(hull1) = CmSize(hull) THEN hull1
            ELSE ExpandLoop(hull1, added, remain, ovf)
        Merge(added, elems) == Grown(added, InsertAll(hull, elems, 1, Len(elems)))
        Added(added) == Merge(added, CmIterate(added))
        Front(elems) == Added(AddedFrom(<<>>, elems, remain, 1, Len(elems)))
    IN  Front(CmIterate(Extrude(front, ovf)))

\* expand_convex
ExpandConvex(core, remain, ovf) == ExpandLoop(core, core, remain, ovf)

RECURSIVE NextFrom(_, _, _, _, _)
\* the loop that builds next over the elements lo..hi of remaining: those
\* that hull.find misses
NextFrom(acc, elems, hull, lo, hi) ==
    LET Then(acc1, mid) ==
            IF Len(acc1) >= 0 THEN NextFrom(acc1, elems, hull, mid + 1, hi) ELSE acc1
        Halves(mid) == Then(NextFrom(acc, elems, hull, lo, mid), mid)
    IN  IF lo > hi THEN acc
        ELSE IF lo = hi
             THEN IF ~CmHas(hull, elems[lo].first)
                  THEN CmInsert(acc, elems[lo].first, elems[lo].second).map ELSE acc
        ELSE Halves((lo + hi) \div 2)

\* next as it would be if no element of remaining were found in the hull
NextOf_KeepAll(remain, hull) == remain

\* next of one outer iteration
NextOf(remain, hull) ==
    LET Loop(elems) == NextFrom(<<>>, elems, hull, 1, Len(elems))
    IN  Loop(CmIterate(remain))

\* the core of one outer iteration: detect_core, seeded with *remaining.begin()
\* when it is empty
CoreOf(remain, ovf) ==
    LET Seed(core, e) == IF CmEmpty(core) THEN CmInsert(core, e.first, e.second).map ELSE core
    IN  Seed(DetectCore(remain, ovf), CmDeref(remain, CmBegin(remain)))

\* the hull of one outer iteration
HullOf(remain, ovf) == ExpandConvex(CoreOf(remain, ovf), remain, ovf)

RECURSIVE MergeLayers(_, _, _)
\* the caller's union of the layers: merged.insert of every element of every layer
MergeLayers(acc, ls, i) ==
    LET Layer(elems) == InsertAll(acc, elems, 1, Len(elems))
        Then(acc1) == IF Len(acc1) >= 0 THEN MergeLayers(acc1, ls, i + 1) ELSE acc1
    IN  IF i > Len(ls) THEN acc
        ELSE Then(Layer(CmIterate(ls[i])))

\* the positions a map enumerates
Keys(ch) ==
    LET Firsts(elems) == { elems[i].first : i \in 1..Len(elems) }
    IN  Firsts(CmIterate(ch))

(***************************************************************************)
(* A caller builds a voxel map, decomposes it and merges the layers.       *)
(***************************************************************************)
P(x, y, z) == Pos(U32(x), U32(y), U32(z))

\* the six face neighbours of (x, y, z) and the voxel itself
Cross(x, y, z) ==
    << P(x, y, z), P(x - 1, y, z), P(x + 1, y, z), P(x, y - 1, z), P(x, y + 1, z),
       P(x, y, z - 1), P(x, y, z + 1) >>

\* a >= b for unsigned 32-bit values: the highest bit they differ in is in a
GeqU32(a, b) ==
    LET Differ(D) == (CHOOSE k \in D : \A j \in D : j <= k) \in a
    IN  IF a = b THEN TRUE ELSE Differ((a \ b) \cup (b \ a))

\* aabb::iterator::operator++: z runs fastest, then y, then x
AabbIncr(lo, hi, pos) ==
    LET NextY(y1) ==
            IF GeqU32(y1, hi.y) THEN Pos(Plus(pos.x, U32(1)), lo.y, lo.z)
            ELSE Pos(pos.x, y1, lo.z)
        NextZ(z1) ==
            IF GeqU32(z1, hi.z) THEN NextY(Plus(pos.y, U32(1)))
            ELSE Pos(pos.x, pos.y, z1)
    IN  NextZ(Plus(pos.z, U32(1)))

RECURSIVE BoxFrom(_, _, _)
\* the positions a loop over aabb{min, max} visits from pos on, up to end()
BoxFrom(lo, hi, pos) ==
    IF pos = Pos(hi.x, lo.y, lo.z) THEN <<>>
    ELSE <<pos>> \o BoxFrom(lo, hi, AabbIncr(lo, hi, pos))

\* the positions of GlobalAabb{min, max} (min inclusive, max exclusive) in the
\* order its iterator visits them, from begin()
Box(lo, hi) == BoxFrom(lo, hi, lo)

\* the sub-sequences of a sequence
Picks(base) ==
    { [j \in 1..Cardinality(S) |-> base[AscList(S)[j]]] : S \in SUBSET (1..Len(base)) }

\* the voxel sets decomposed: every choice among five voxels of two chunks,
\* a cross, a cross with a tail, a cross with a voxel apart, a cross with a
\* pair apart, two crosses apart, the solid boxes of 27, 8 and 4 voxels, the
\* solid box of 36 voxels from x = INT_MAX - 2 to x = INT_MAX + 1, a cross at
\* the far end of chunk (1023,0,0) with a voxel of chunk (0,0,0), and a voxel
\* at INT_MAX
Shapes ==
    Picks(<<P(0, 0, 0), P(1, 0, 0), P(0, 1, 0), P(2, 0, 0), P(32, 0, 0)>>)
    \cup { Cross(1, 1, 1),
           Cross(1, 1, 1) \o <<P(3, 1, 1), P(4, 1, 1)>>,
           Cross(1, 1, 1) \o <<P(5, 5, 5)>>,
           Cross(1, 1, 1) \o <<P(5, 5, 5), P(5, 5, 6)>>,
           Cross(1, 1, 1) \o Cross(5, 1, 1),
           Box(P(0, 0, 0), P(3, 3, 3)),
           Box(P(1, 1, 1), P(3, 3, 3)),
           Box(P(4, 0, 0), P(5, 2, 2)),
           Box(Pos(U32(2147483645), {}, {}), Pos(Plus(U32(2147483647), U32(2)), U32(3), U32(3))),
           Cross(32766, 1, 1) \o <<P(0, 1, 1)>>,
           <<P(2147483647, 1, 1)>> }

InitCecd ==
    /\ ViewsIdle
    /\ BucketIdle
    /\ PosIdle
    /\ MortonIdle
    /\ RangeIdle
    /\ MorphIdle
    /\ InnerMap = "bucket_map_wrapper" /\ chunks_ = <<>> /\ written = <<>>
    /\ usedLarge = FALSE /\ cret = NoCall
    /\ shape \in Shapes
    /\ overflowOk \in BOOLEAN
    /\ voxels = <<>> /\ remaining = <<>> /\ layers = <<>> /\ merged = <<>>
    /\ kpc = "build"

\* the caller writes the next voxel of the shape: map[p] = 1
CecdWrite ==
    /\ kpc = "build"
    /\ CmSize(voxels) < Len(shape)
    /\ voxels' = CmIndexAssign(voxels, shape[CmSize(voxels) + 1], 1)
    /\ UNCHANGED <<shape, overflowOk, remaining, layers, merged, kpc>>
    /\ CecdFrame

\* core_expanding_convex_decomposition is entered: remaining = voxels
CecdCall ==
    /\ kpc = "build"
    /\ CmSize(voxels) = Len(shape)
    /\ remaining' = voxels
    /\ layers' = <<>>
    /\ kpc' = "loop"
    /\ UNCHANGED <<shape, overflowOk, voxels, merged>>
    /\ CecdFrame

\* one iteration of while (!remaining.empty())
CecdIterate ==
    /\ kpc = "loop"
    /\ ~CmEmpty(remaining)
    /\ LET Peel(hull) ==
               IF CmEmpty(hull)
               THEN /\ kpc' = "returned"
                    /\ UNCHANGED <<remaining, layers>>
               ELSE /\ layers' = Append(layers, hull)
                    /\ remaining' = NextOf(remaining, hull)
                    /\ kpc' = "loop"
       IN  Peel(HullOf(remaining, overflowOk))
    /\ UNCHANGED <<shape, overflowOk, voxels, merged>>
    /\ CecdFrame

\* the loop ends and the layers are returned
CecdReturn ==
    /\ kpc = "loop"
    /\ CmEmpty(remaining)
    /\ kpc' = "returned"
    /\ UNCHANGED <<shape, overflowOk, voxels, remaining, layers, merged>>
    /\ CecdFrame

\* the caller merges the layers
CecdMerge ==
    /\ kpc = "returned"
    /\ merged' = MergeLayers(<<>>, layers, 1)
    /\ kpc' = "merged"
    /\ UNCHANGED <<shape, overflowOk, voxels, remaining, layers>>
    /\ CecdFrame

NextCecd ==
    \/ CecdWrite
    \/ CecdCall
    \/ CecdIterate
    \/ CecdReturn
    \/ CecdMerge

SpecCecd == InitCecd /\ [][NextCecd]_vars

\* the voxels of the shape, as a set
ShapeSet == { shape[i] : i \in 1..Len(shape) }

\* C20: whenever the layers of a decomposition have been merged, the merged
\* map holds at least 95% of the voxels of the decomposed set (the input map
\* enumerating exactly the voxels that were written into it)
C20_CoverageAtLeast95 ==
    (kpc = "merged" /\ Keys(voxels) = ShapeSet)
        => 100 * Cardinality(Keys(merged) \cap ShapeSet) >= 95 * Cardinality(ShapeSet)

\* the positions the i-th returned layer enumerates
LayerKeys(i) == Keys(layers[i])

\* C21: the layers of a decomposition partition the decomposed map: every
\* layer is non-empty and holds only positions of the map, no position is in
\* two layers, and once the loop has ended with remaining empty the layers
\* together hold exactly the positions of the map
C21_LayersPartition ==
    kpc \in {"loop", "returned"} =>
        /\ \A i \in 1..Len(layers) :
              /\ ~CmEmpty(layers[i])
              /\ LayerKeys(i) \subseteq Keys(voxels)
        /\ \A i, j \in 1..Len(layers) : i # j => LayerKeys(i) \cap LayerKeys(j) = {}
        /\ (kpc = "returned" /\ CmEmpty(remaining))
              => UNION { LayerKeys(i) : i \in 1..Len(layers) } = Keys(voxels)

\* C22: every outer iteration that stays in the loop leaves fewer voxels in
\* remaining than it found, so that the loop has ended after at most as many
\* iterations (one layer each) as the decomposed map has voxels; the empty
\* map leaves the loop without an iteration and returns no layer
C22_TerminatesWithinN ==
    /\ [][(kpc = "loop" /\ kpc' = "loop") => CmSize(remaining') < CmSize(remaining)]_vars
    /\ [](kpc \in {"loop", "returned"} =>
            /\ Len(layers) + CmSize(remaining) <= CmSize(voxels)
            /\ (CmEmpty(voxels) => layers = <<>>)
            /\ (kpc = "loop" /\ CmEmpty(remaining) => ENABLED CecdReturn))

\* a decomposition of eight voxels has returned after two outer iterations
C22_Witness ==
    /\ kpc = "returned"
    /\ CmEmpty(remaining)
    /\ Len(layers) = 2
    /\ CmSize(voxels) = 8

RECURSIVE LastInset(_, _)
\* the last non-empty set in the chain cur, inset(cur), inset(inset(cur)), ...
LastInset(cur, ovf) ==
    LET Step(in) == IF CmEmpty(in) THEN cur ELSE LastInset(in, ovf)
    IN  Step(Inset(cur, ovf))

\* C23: at the start of an outer iteration, the core the hull is grown from
\* is a single voxel of remaining when the inset of remaining is empty, and
\* is otherwise the last non-empty set of the chain of insets of remaining
C23_CoreSeeding ==
    LET Seeded(core) ==
            /\ Cardinality(Keys(core)) = 1
            /\ Keys(core) \subseteq Keys(remaining)
        Chained(core) == Keys(core) = Keys(LastInset(Inset(remaining, overflowOk), overflowOk))
        Holds(core) ==
            IF CmEmpty(Inset(remaining, overflowOk)) THEN Seeded(core) ELSE Chained(core)
    IN  (kpc = "loop" /\ ~CmEmpty(remaining)) => Holds(CoreOf(remaining, overflowOk))

\* coordinate b is coordinate a plus one, or a is b plus one (no wrap-around)
Beside(a, b) ==
    \/ (a # BitIds /\ Plus(a, U32(1)) = b)
    \/ (b # BitIds /\ Plus(b, U32(1)) = a)

\* two positions are face neighbours: one coordinate differs by one
FaceAdjacent(p, q) ==
    \/ (Beside(p.x, q.x) /\ p.y = q.y /\ p.z = q.z)
    \/ (p.x = q.x /\ Beside(p.y, q.y) /\ p.z = q.z)
    \/ (p.x = q.x /\ p.y = q.y /\ Beside(p.z, q.z))

RECURSIVE Reach(_, _)
\* the positions of S that a path of face neighbours inside S joins to a
\* position of from
Reach(from, S) ==
    LET Grow(more) == IF more = {} THEN from ELSE Reach(from \cup more, S)
    IN  Grow({ q \in S \ from : \E p \in from : FaceAdjacent(p, q) })

\* C24: every returned layer lies inside one face-connected component of the
\* decomposed map
C24_LayerInOneComponent ==
    kpc = "returned" =>
        \A i \in 1..Len(layers) :
            \A p \in LayerKeys(i) : LayerKeys(i) \subseteq Reach({p}, Keys(voxels))

\* position p of S has no face neighbour in S
Isolated(p, S) == \A q \in S : ~FaceAdjacent(p, q)

\* C25: every voxel of the decomposed map that has no face neighbour in the
\* map is returned as a layer that holds this voxel and nothing else
C25_IsolatedOwnLayer ==
    LET Alone(S) ==
            \A p \in S : Isolated(p, S) => \E i \in 1..Len(layers) : LayerKeys(i) = {p}
    IN  kpc = "returned" => Alone(Keys(voxels))

\* the coordinates of A are consecutive: only the largest has no successor in A
Interval(A) ==
    Cardinality({ a \in A : a = BitIds \/ Plus(a, U32(1)) \notin A }) = 1

\* S is a solid axis-aligned box: every combination of its x, y and z
\* coordinates, each of which fill an interval
IsBox(S) ==
    LET Filled(X, Y, Z) ==
            /\ Interval(X) /\ Interval(Y) /\ Interval(Z)
            /\ Cardinality(S) = Cardinality(X) * Cardinality(Y) * Cardinality(Z)
    IN  Filled({ p.x : p \in S }, { p.y : p \in S }, { p.z : p \in S })

\* C26: the decomposition of a map whose voxels are a solid axis-aligned box
\* returns exactly one layer, and the layer holds exactly the voxels of the map
C26_BoxOneLayer ==
    LET One(S) == IsBox(S) => (Len(layers) = 1 /\ LayerKeys(1) = S)
    IN  kpc = "returned" => One(Keys(voxels))


(***************************************************************************)
(* A caller builds a voxel map and applies inset, extrude (to the map or   *)
(* to its inset, as the test of the two operations does) or expand_convex  *)
(* with a core taken from the map.                                         *)
(***************************************************************************)
\* the positions of a sequence moved by 2^31 along x
Far(seq) == [i \in 1..Len(seq) |-> Pos(seq[i].x \cup {Width - 1}, seq[i].y, seq[i].z)]

\* the voxel sets the operations are applied to: every choice among five
\* voxels of two chunks, one voxel, a cross, the solid box of 27 voxels, a
\* voxel at the end of chunk (1023,0,0) with a voxel of chunk (0,0,0), a
\* voxel at INT_MAX, a voxel at 2^32 - 1, and a voxel, a pair and a cross
\* beyond 2^31
MorphShapes ==
    Picks(<<P(0, 0, 0), P(1, 0, 0), P(0, 1, 0), P(2, 0, 0), P(32, 0, 0)>>)
    \cup { <<P(1, 1, 1)>>,
           Cross(1, 1, 1),
           Box(P(0, 0, 0), P(3, 3, 3)),
           <<P(32767, 1, 1), P(0, 1, 1)>>,
           <<P(2147483647, 1, 1)>>,
           <<Pos(BitIds, U32(1), U32(1))>>,
           Far(<<P(1, 1, 1)>>),
           Far(<<P(1, 1, 1), P(2, 1, 1)>>),
           Far(Cross(1, 1, 1)) }

InitMorph ==
    /\ ViewsIdle
    /\ BucketIdle
    /\ PosIdle
    /\ MortonIdle
    /\ RangeIdle
    /\ InnerMap = "bucket_map_wrapper" /\ chunks_ = <<>> /\ written = <<>>
    /\ usedLarge = FALSE /\ cret = NoCall
    /\ shape \in MorphShapes
    /\ overflowOk \in BOOLEAN
    /\ voxels = <<>> /\ remaining = <<>> /\ layers = <<>> /\ merged = <<>>
    /\ kpc = "build"
    /\ MorphIdle

\* auto inner = inset(box)
MorphInset ==
    /\ tpc = "build"
    /\ CmSize(voxels) = Len(shape)
    /\ inner' = Inset(voxels, overflowOk)
    /\ tpc' = "inset"
    /\ UNCHANGED <<grown, coreIn, hullOut>>
    /\ MorphFrame

\* auto grown = extrude(inner), or extrude applied to the map itself
MorphExtrude ==
    /\ IF tpc = "build" THEN CmSize(voxels) = Len(shape) ELSE tpc = "inset"
    /\ grown' = Extrude(IF tpc = "inset" THEN inner ELSE voxels, overflowOk)
    /\ tpc' = IF tpc = "inset" THEN "grown" ELSE "extruded"
    /\ UNCHANGED <<inner, coreIn, hullOut>>
    /\ MorphFrame

\* expand_convex(core, remaining) with remaining the map and core one or two
\* of its voxels
MorphExpand ==
    /\ tpc = "build"
    /\ CmSize(voxels) = Len(shape)
    /\ \E k \in 1..Len(shape), n \in 1..2 :
          LET Grow(c) ==
                  /\ coreIn' = c
                  /\ hullOut' = ExpandConvex(c, voxels, overflowOk)
              Taken(elems) == Grow(InsertAll(<<>>, elems, 1, Len(elems)))
          IN  /\ k + n - 1 <= Len(shape)
              /\ Taken([i \in 1..n |-> [first |-> shape[k + i - 1], second |-> 1]])
    /\ tpc' = "expanded"
    /\ UNCHANGED <<inner, grown>>
    /\ MorphFrame

NextMorph ==
    \/ CecdWrite
    \/ MorphInset
    \/ MorphExtrude
    \/ MorphExpand

SpecMorph == InitMorph /\ [][NextMorph]_vars

\* the face neighbours of a position: one step up or down along one axis,
\* where the coordinate has one
Up(a) == IF a = BitIds THEN {} ELSE {Plus(a, U32(1))}

Down(a) == IF a = {} THEN {} ELSE {Plus(a, BitIds)}

FaceNeighbours(p) ==
    { Pos(x, p.y, p.z) : x \in Up(p.x) \cup Down(p.x) }
    \cup { Pos(p.x, y, p.z) : y \in Up(p.y) \cup Down(p.y) }
    \cup { Pos(p.x, p.y, z) : z \in Up(p.z) \cup Down(p.z) }

\* the positions of S that have six face neighbours, all of them in S
InsetSet(S) ==
    { p \in S : Cardinality(FaceNeighbours(p)) = 6 /\ FaceNeighbours(p) \subseteq S }

\* the positions of S and all their face neighbours
ExtrudeSet(S) == S \cup UNION { FaceNeighbours(p) : p \in S }

\* C27: inset returns exactly the voxels of the map that have six face
\* neighbours, all of them in the map (so none with a coordinate 0, only the
\* centre of the solid box of 27 voxels, and always a subset of the map)
C27_InsetExact ==
    tpc \in {"inset", "grown"} => Keys(inner) = InsetSet(Keys(voxels))

\* C28: extrude returns exactly the voxels of the map it is applied to
\* together with all their face neighbours (none below coordinate 0), seven
\* voxels for a single voxel whose coordinates are all at least 1
C28_ExtrudeExact ==
    /\ tpc = "grown" => Keys(grown) = ExtrudeSet(Keys(inner))
    /\ tpc = "extruded" => Keys(grown) = ExtrudeSet(Keys(voxels))

\* C29: expand_convex returns exactly the voxels of remaining that a path of
\* face neighbours inside remaining joins to a voxel of the core
C29_ExpandReachable ==
    tpc = "expanded" => Keys(hullOut) = Reach(Keys(coreIn), Keys(voxels))

(***************************************************************************)
(* layered_map.h: a layered_map is a chunk_map over bucket_map_wrapper,    *)
(* driven by a caller with indexed writes and reads, at and erase.         *)
(***************************************************************************)
InitLayered ==
    /\ ViewsIdle
    /\ BucketIdle
    /\ PosIdle
    /\ MortonIdle
    /\ RangeIdle
    /\ CecdIdle
    /\ MorphIdle
    /\ InnerMap = "bucket_map_wrapper"
    /\ chunks_ = <<>>
    /\ written = <<>>
    /\ usedLarge = FALSE
    /\ cret = NoCall

NextLayered ==
    \/ ChunkIndexAssign
    \/ ChunkIndex
    \/ ChunkErase
    \/ ChunkAt
    \/ ChunkReturn

SpecLayered == InitLayered /\ [][NextLayered]_vars

\* C30: an indexed write m[g] = v leaves at(h) as it was for every position
\* h other than g that was present before the write
C30_IndexedWriteFrame ==
    [][(cret = NoCall /\ cret'.op = "assign") =>
          \A h \in CallKeys \ {cret'.key} :
              ~CmAt(chunks_, h).thrown =>
                  /\ ~CmAt(chunks_', h).thrown
                  /\ CmAt(chunks_', h).value = CmAt(chunks_, h).value]_vars
====
